---- MODULE Spec2Model ----
(***************************************************************************)
(* A model of mcp-sentry-ts: the context extraction of the                 *)
(* extract_issue_context_data tool (src/src/index.ts), the renderers       *)
(* (BaseFormatter, ProjectFormatter, IssueFormatter), the tool handlers    *)
(* with the requests of SentryApiClient, and handlers invoked together.    *)
(*                                                                         *)
(* JavaScript values are tagged records; a string is the sequence of its   *)
(* UTF-16 code units wherever the code orders or converts strings, and a   *)
(* rendered text is the sequence of the pieces the code concatenates.      *)
(***************************************************************************)
EXTENDS Integers, Sequences, FiniteSets, TLC

VARIABLES
    pc,             \* "call": the operation is about to run; "return": it has returned
    events,         \* extract_issue_context_data: the events getIssueEvents resolved to
    extract_fields, \* extract_issue_context_data: the requested field names
    result,         \* extract_issue_context_data: the result object (line 419)
    formatType,     \* BaseFormatter.formatType
    view,           \* BaseFormatter.view
    call,           \* the formatter entry point or the tool invoked, with its arguments
    output,         \* the value the entry point returned: a sequence of chunks
    locals,         \* a tool handler: its local variables across its awaits
    requests,       \* a tool handler: the endpoints SentryApiClient.get was called with
    response        \* a tool handler: the response it returned

vars == <<pc, events, extract_fields, result, formatType, view, call, output,
          locals, requests, response>>

-----------------------------------------------------------------------------
(* Bounds of the model.                                                    *)

MaxEvents == 2
MaxFields == 2
MaxItems == 2
MaxFrames == 11
MaxVarFrames == 2

-----------------------------------------------------------------------------
(* JavaScript values.                                                      *)

Undefined == [t |-> "undefined"]
Null == [t |-> "null"]
Num(n) == [t |-> "num", n |-> n]
Str(u) == [t |-> "str", u |-> u]
Obj(m) == [t |-> "obj", m |-> m]
Arr(a) == [t |-> "arr", a |-> a]
Bool(b) == [t |-> "bool", b |-> b]
\* An object with its identity, for the code that compares objects.
ObjRef(ref, m) == [t |-> "obj", ref |-> ref, m |-> m]
\* A string given by its characters, for the code that looks into it.
Chars(c) == [t |-> "chars", c |-> c]

SeqsUpTo(S, n) == UNION {[1..m -> S] : m \in 0..n}

\* The absent thing of this model: a variable no operation of the
\* specification at hand uses.
Unused == <<>>

\* obj[key]: undefined when the property is not there (or obj has none).
Get(obj, key) ==
    IF obj.t = "obj" /\ key \in DOMAIN obj.m THEN obj.m[key] ELSE Undefined

\* ToBoolean.
Truthy(v) ==
    CASE v.t = "undefined" -> FALSE
      [] v.t = "null" -> FALSE
      [] v.t = "bool" -> v.b
      [] v.t = "num" -> v.n # 0
      [] v.t = "str" -> Len(v.u) > 0
      [] v.t = "chars" -> Len(v.c) > 0
      [] OTHER -> TRUE

\* Object.keys(obj).
Keys(obj) == IF obj.t = "obj" THEN DOMAIN obj.m ELSE {}

\* The code units of the decimal digits of a natural number.
RECURSIVE Digits(_)
Digits(n) == IF n < 10 THEN <<48 + n>> ELSE Digits(n \div 10) \o <<48 + (n % 10)>>

S_null == <<110, 117, 108, 108>>
S_undefined == <<117, 110, 100, 101, 102, 105, 110, 101, 100>>
S_true == <<116, 114, 117, 101>>
S_false == <<102, 97, 108, 115, 101>>
S_object == <<91, 111, 98, 106, 101, 99, 116, 32, 79, 98, 106, 101, 99, 116, 93>>

\* String(v) of a primitive or a plain object.
ToStr(v) ==
    CASE v.t = "str" -> v.u
      [] v.t = "num" -> Digits(v.n)
      [] v.t = "null" -> S_null
      [] v.t = "undefined" -> S_undefined
      [] v.t = "bool" -> (IF v.b THEN S_true ELSE S_false)
      [] OTHER -> S_object

\* a < b in the order of Array.prototype.sort without a comparator:
\* by UTF-16 code units, a proper prefix first.
StrLess(a, b) ==
    \E i \in 1..(Len(a) + 1) :
        /\ \A j \in 1..(i - 1) : j <= Len(b) /\ a[j] = b[j]
        /\ \/ i = Len(a) + 1 /\ Len(b) >= i
           \/ i <= Len(a) /\ i <= Len(b) /\ a[i] < b[i]

\* One element put into its place in a sorted sequence.
RECURSIVE InsertSorted(_, _)
InsertSorted(s, x) ==
    IF s = <<>> THEN <<x>>
    ELSE IF StrLess(x, Head(s)) THEN <<x>> \o s
    ELSE <<Head(s)>> \o InsertSorted(Tail(s), x)

\* Array.prototype.sort() of an array of strings.
RECURSIVE SortStrings(_)
SortStrings(s) ==
    IF s = <<>> THEN <<>>
    ELSE InsertSorted(SortStrings(Tail(s)), Head(s))

\* Set.prototype.add: a Set keeps its members in insertion order.
SetAdd(s, x) == IF \E i \in 1..Len(s) : s[i] = x THEN s ELSE Append(s, x)

-----------------------------------------------------------------------------
(* Text.  A text is the sequence of the string pieces the code joins; the  *)
(* string it stands for is their concatenation.  The renderers return a    *)
(* sequence of chunks, one for each append to output in the code, naming  *)
(* the primitive whose result is appended ("raw" for a literal).           *)

\* The string of a text: its pieces concatenated, by halves.
RECURSIVE Flatten(_)
Flatten(text) ==
    IF text = <<>> THEN ""
    ELSE IF Len(text) = 1 THEN text[1]
    ELSE Flatten(SubSeq(text, 1, Len(text) \div 2))
         \o Flatten(SubSeq(text, Len(text) \div 2 + 1, Len(text)))

\* The concatenation of a sequence of sequences, by halves.
RECURSIVE Concat(_)
Concat(texts) ==
    IF texts = <<>> THEN <<>>
    ELSE IF Len(texts) = 1 THEN texts[1]
    ELSE Concat(SubSeq(texts, 1, Len(texts) \div 2))
         \o Concat(SubSeq(texts, Len(texts) \div 2 + 1, Len(texts)))

\* Array.prototype.join of texts.
RECURSIVE Join(_, _)
Join(texts, sep) ==
    IF texts = <<>> THEN <<>>
    ELSE IF Len(texts) = 1 THEN texts[1]
    ELSE texts[1] \o <<sep>> \o Join(Tail(texts), sep)

\* String.prototype.repeat
RECURSIVE Repeat(_, _)
Repeat(s, n) == IF n <= 0 THEN "" ELSE s \o Repeat(s, n - 1)

\* `${v}`: the string a template literal puts for v.
Interp(v) ==
    CASE v.t = "str" -> v.u
      [] v.t = "chars" -> Flatten(v.c)
      [] v.t = "num" -> ToString(v.n)
      [] v.t = "null" -> "null"
      [] v.t = "undefined" -> "undefined"
      [] v.t = "bool" -> (IF v.b THEN "true" ELSE "false")
      [] OTHER -> "[object Object]"

\* `${v || fallback}`
OrElse(v, fallback) == IF Truthy(v) THEN <<Interp(v)>> ELSE <<fallback>>

\* The elements of an array value; none when the value is no array.
Elems(v) == IF v.t = "arr" THEN v.a ELSE <<>>

Call(prim, text) == [prim |-> prim, text |-> text]
Raw(text) == [prim |-> "raw", text |-> text]

\* The string a renderer returned.
TextOf(chunks) == Flatten(Concat([i \in 1..Len(chunks) |-> chunks[i].text]))

\* The primitives a renderer invoked for its chunks.
Invoked(chunks) == {chunks[i].prim : i \in 1..Len(chunks)}

\* The grave accent U+0060, which the markup of code spans and fences is
\* made of, written by name.
Backtick == "<U+0060>"
Fence == Backtick \o Backtick \o Backtick

-----------------------------------------------------------------------------
(* BaseFormatter (src/src/formatters/baseFormatter.ts).                    *)

isMarkdown == formatType = "markdown"

isDetailed == view = "detailed"

createHeader(title, level) ==
    IF isMarkdown
    THEN <<Repeat("#", level), " ">> \o title \o <<"\n\n">>
    ELSE title \o <<"\n\n">>

createTable(headers, rows) ==
    IF isMarkdown
    THEN <<"| ">> \o Join(headers, " | ") \o <<" |\n">>
         \o <<"|">> \o Join([i \in 1..Len(headers) |-> <<"----">>], "|") \o <<"|\n">>
         \o Concat([r \in 1..Len(rows) |->
                       <<"| ">> \o Join(rows[r], " | ") \o <<" |\n">>])
         \o <<"\n">>
    ELSE Concat([r \in 1..Len(rows) |-> Join(rows[r], " | ") \o <<"\n">>])
         \o <<"\n">>

\* Both branches of the code build the same string.
createList(items, ordered) ==
    Join([i \in 1..Len(items) |->
             (IF ordered THEN <<ToString(i), ". ">> ELSE <<"- ">>) \o items[i]],
         "\n")
    \o <<"\n\n">>

createCodeBlock(code, language) ==
    IF isMarkdown
    THEN <<Fence, language, "\n">> \o code \o <<"\n", Fence, "\n\n">>
    ELSE code \o <<"\n\n">>

createLink(text, url) ==
    IF isMarkdown
    THEN <<"[">> \o text \o <<"](">> \o url \o <<")">>
    ELSE text \o <<": ">> \o url

\* createBold without the emphasis of markdown mode.
createBold_Plain(text) == text

createBold(text) ==
    IF isMarkdown THEN <<"**">> \o text \o <<"**">> ELSE text

createSeparator ==
    IF isMarkdown THEN <<"\n---\n\n">> ELSE <<"\n", Repeat("-", 50), "\n\n">>

\* `${this.createBold(label)}: ${value}`
Labelled(label, value) == createBold(<<label>>) \o <<": ">> \o value

-----------------------------------------------------------------------------
(* ProjectFormatter (src/unnamed/part_000, 159-233).                       *)

\* project.teams.map((team) => team.name).join(", ")
TeamNames(project) ==
    LET teams == Elems(Get(project, "teams"))
    IN Join([i \in 1..Len(teams) |-> <<Interp(Get(teams[i], "name"))>>], ", ")

\* project[key]?.join(", ") ?? "None": the fallback for an absent list only.
JoinedOrNone_AbsentOnly(project, key) ==
    LET items == Elems(Get(project, key))
    IN IF Get(project, key) = Undefined THEN <<"None">>
       ELSE Join([i \in 1..Len(items) |-> <<Interp(items[i])>>], ", ")

\* project[key]?.join(", ") || "None"
JoinedOrNone(project, key) ==
    LET items == Elems(Get(project, key))
        joined == Join([i \in 1..Len(items) |-> <<Interp(items[i])>>], ", ")
    IN IF Get(project, key) = Undefined \/ Flatten(joined) = ""
       THEN <<"None">> ELSE joined

ProjectRow(project) ==
    <<<<Interp(Get(project, "id"))>>,
      <<Interp(Get(project, "name"))>>,
      <<Interp(Get(project, "slug"))>>,
      OrElse(Get(project, "platform"), "N/A"),
      TeamNames(project),
      JoinedOrNone(project, "environments"),
      JoinedOrNone(project, "features")>>

ProjectLines(project) ==
    Raw(<<"ID: ", Interp(Get(project, "id")), "\n">>
        \o <<"Name: ", Interp(Get(project, "name")), "\n">>
        \o <<"Slug: ", Interp(Get(project, "slug")), "\n">>
        \o <<"Platform: ">> \o OrElse(Get(project, "platform"), "N/A") \o <<"\n">>
        \o <<"Teams: ">> \o TeamNames(project) \o <<"\n">>
        \o <<"Environments: ">> \o JoinedOrNone(project, "environments") \o <<"\n">>
        \o <<"Features: ">> \o JoinedOrNone(project, "features") \o <<"\n\n">>)

ProjectFormatter_formatDetailed(projects) ==
    <<Call("createHeader", createHeader(<<"Sentry Projects">>, 1))>>
    \o (IF isMarkdown
        THEN <<Call("createTable",
                    createTable(<<<<"ID">>, <<"Name">>, <<"Slug">>, <<"Platform">>,
                                  <<"Teams">>, <<"Environments">>, <<"Features">>>>,
                                [i \in 1..Len(projects) |-> ProjectRow(projects[i])]))>>
        ELSE [i \in 1..Len(projects) |-> ProjectLines(projects[i])])
    \o <<Call("createHeader", createHeader(<<"Summary">>, 2)),
         Raw(<<"Total Projects: ", ToString(Len(projects)), "\n">>)>>

ProjectFormatter_formatSummary(projects) ==
    <<Call("createHeader", createHeader(<<"Sentry Projects">>, 1)),
      Call("createList",
           createList([i \in 1..Len(projects) |->
                          createBold(<<Interp(Get(projects[i], "name"))>>)
                          \o <<" (", Interp(Get(projects[i], "slug")), "): ID ",
                               Interp(Get(projects[i], "id"))>>],
                      FALSE)),
      Raw(<<"Total Projects: ", ToString(Len(projects))>>)>>

ProjectFormatter_formatData(projects) ==
    IF isDetailed
    THEN ProjectFormatter_formatDetailed(projects)
    ELSE ProjectFormatter_formatSummary(projects)

-----------------------------------------------------------------------------
(* Date.prototype.toISOString, for the times the stats buckets carry.      *)

Pad(n, width) ==
    LET d == ToString(n) IN Repeat("0", width - Len(d)) \o d

\* ms: milliseconds since the epoch, not negative.
ToISOString(ms) ==
    LET secs == ms \div 1000
        z == (secs \div 86400) + 719468
        era == z \div 146097
        doe == z - era * 146097
        yoe == (doe - doe \div 1460 + doe \div 36524 - doe \div 146096) \div 365
        doy == doe - (365 * yoe + yoe \div 4 - yoe \div 100)
        mp == (5 * doy + 2) \div 153
        d == doy - (153 * mp + 2) \div 5 + 1
        m == IF mp < 10 THEN mp + 3 ELSE mp - 9
        y == yoe + era * 400 + (IF m <= 2 THEN 1 ELSE 0)
        rem == secs % 86400
    IN Pad(y, 4) \o "-" \o Pad(m, 2) \o "-" \o Pad(d, 2) \o "T"
       \o Pad(rem \div 3600, 2) \o ":" \o Pad((rem % 3600) \div 60, 2) \o ":"
       \o Pad(rem % 60, 2) \o "." \o Pad(ms % 1000, 3) \o "Z"

-----------------------------------------------------------------------------
(* IssueFormatter: the lists (src/src/formatters/issueFormatter.ts).       *)

\* issue.stats["24h"] when the three conditions of the code hold, else none.
Stats24h(issue) ==
    LET stats == Get(issue, "stats")
        buckets == Get(stats, "24h")
    IN IF Truthy(stats) /\ Truthy(buckets) /\ Len(Elems(buckets)) > 0
       THEN Elems(buckets) ELSE <<>>

\* The 24-Hour Event Distribution of an issue, headed at the given level.
StatsChunks(issue, level) ==
    LET buckets == Stats24h(issue)
        iso(b) == ToISOString(Elems(b)[1].n * 1000)
        count(b) == Interp(Elems(b)[2])
    IN IF buckets = <<>> THEN <<>>
       ELSE <<Call("createHeader",
                   createHeader(<<"24-Hour Event Distribution">>, level))>>
            \o (IF isMarkdown
                THEN <<Call("createTable",
                            createTable(<<<<"Timestamp">>, <<"Count">>>>,
                                        [i \in 1..Len(buckets) |->
                                            <<<<iso(buckets[i])>>,
                                              <<count(buckets[i])>>>>]))>>
                ELSE [i \in 1..Len(buckets) |->
                         Raw(<<iso(buckets[i]), ": ", count(buckets[i]), "\n">>)]
                     \o <<Raw(<<"\n">>)>>)

IssueRow(issue) ==
    <<<<Interp(Get(issue, "id"))>>,
      <<Interp(Get(issue, "shortId"))>>,
      <<Interp(Get(issue, "title"))>>,
      <<Interp(Get(issue, "status"))>>,
      <<Interp(Get(issue, "level"))>>,
      <<Interp(Get(issue, "firstSeen"))>>,
      <<Interp(Get(issue, "lastSeen"))>>,
      <<Interp(Get(issue, "count"))>>,
      <<Interp(Get(issue, "userCount"))>>>>

\* One pass of the loop of formatDetailedIssueList.
IssueSection(issue, i) ==
    <<Call("createHeader",
           createHeader(<<"Issue ", ToString(i), ": ", Interp(Get(issue, "title"))>>, 3)),
      Call("createList",
           createList(
               <<Labelled("ID", <<Interp(Get(issue, "id"))>>),
                 Labelled("Short ID", <<Interp(Get(issue, "shortId"))>>),
                 Labelled("Status", <<Interp(Get(issue, "status"))>>),
                 Labelled("Level", <<Interp(Get(issue, "level"))>>),
                 Labelled("First Seen", <<Interp(Get(issue, "firstSeen"))>>),
                 Labelled("Last Seen", <<Interp(Get(issue, "lastSeen"))>>),
                 Labelled("Event Count", <<Interp(Get(issue, "count"))>>),
                 Labelled("User Count", <<Interp(Get(issue, "userCount"))>>),
                 Labelled("Culprit", <<Interp(Get(issue, "culprit"))>>),
                 Labelled("Permalink",
                          createLink(<<Interp(Get(issue, "permalink"))>>,
                                     <<Interp(Get(issue, "permalink"))>>))>>,
               FALSE))>>
    \o StatsChunks(issue, 4)
    \o <<Call("createSeparator", createSeparator)>>

formatDetailedIssueList(issues, projectSlug) ==
    <<Call("createHeader", createHeader(<<"Issues for Project: ", projectSlug>>, 1))>>
    \o (IF isMarkdown
        THEN <<Call("createTable",
                    createTable(<<<<"ID">>, <<"Short ID">>, <<"Title">>, <<"Status">>,
                                  <<"Level">>, <<"First Seen">>, <<"Last Seen">>,
                                  <<"Events">>, <<"Users">>>>,
                                [i \in 1..Len(issues) |-> IssueRow(issues[i])]))>>
        ELSE <<>>)
    \o <<Call("createHeader", createHeader(<<"Issue Details">>, 2))>>
    \o Concat([i \in 1..Len(issues) |-> IssueSection(issues[i], i)])
    \o <<Call("createHeader", createHeader(<<"Summary">>, 2)),
         Raw(<<"Total Issues: ", ToString(Len(issues)), "\n">>)>>

formatSummaryIssueList(issues, projectSlug) ==
    <<Call("createHeader", createHeader(<<"Issues for Project: ", projectSlug>>, 1)),
      Call("createList",
           createList([i \in 1..Len(issues) |->
                          createBold(<<Interp(Get(issues[i], "title"))>>)
                          \o <<" (", Interp(Get(issues[i], "shortId")), ")">>
                          \o <<"\n  - ", "Status: ", Interp(Get(issues[i], "status")),
                               ", Level: ", Interp(Get(issues[i], "level")),
                               ", Events: ", Interp(Get(issues[i], "count"))>>
                          \o <<"\n  - ", "First seen: ",
                               Interp(Get(issues[i], "firstSeen")),
                               ", Last seen: ", Interp(Get(issues[i], "lastSeen"))>>],
                      FALSE)),
      Raw(<<"Total Issues: ", ToString(Len(issues))>>)>>

\* formatIssueList without its test for an empty list.
formatIssueList_NoEmptyTest(issues, projectSlug) ==
    IF isDetailed
    THEN formatDetailedIssueList(issues, projectSlug)
    ELSE formatSummaryIssueList(issues, projectSlug)

formatIssueList(issues, projectSlug) ==
    IF Len(issues) = 0
    THEN <<Call("createHeader",
                createHeader(<<"Issues for Project: ", projectSlug>>, 1)),
           Raw(<<"No issues found for this project.\n">>)>>
    ELSE IF isDetailed
    THEN formatDetailedIssueList(issues, projectSlug)
    ELSE formatSummaryIssueList(issues, projectSlug)

-----------------------------------------------------------------------------
(* IssueFormatter: a single issue (issueFormatter.ts, 28-33 and 340-478).  *)

\* An exception thrown in place of a return value.
Throw(name, message) == <<[prim |-> "throw", text |-> <<name, ": ", message>>]>>

Throws(chunks) == Len(chunks) > 0 /\ chunks[1].prim = "throw"

\* The TypeError of reading a property of undefined or null.
CannotRead(of, key) ==
    Throw("TypeError",
          "Cannot read properties of " \o Interp(of) \o " (reading '" \o key \o "')")

\* Whether obj.key throws.
Nullish(v) == v = Undefined \/ v = Null

IssueOverview(issue) ==
    <<Labelled("ID", <<Interp(Get(issue, "id"))>>),
      Labelled("Short ID", <<Interp(Get(issue, "shortId"))>>),
      Labelled("Status", <<Interp(Get(issue, "status"))>>),
      Labelled("Level", <<Interp(Get(issue, "level"))>>),
      Labelled("First Seen", <<Interp(Get(issue, "firstSeen"))>>),
      Labelled("Last Seen", <<Interp(Get(issue, "lastSeen"))>>),
      Labelled("Event Count", <<Interp(Get(issue, "count"))>>),
      Labelled("User Count", <<Interp(Get(issue, "userCount"))>>),
      Labelled("Culprit", <<Interp(Get(issue, "culprit"))>>),
      Labelled("Permalink",
               createLink(<<Interp(Get(issue, "permalink"))>>,
                          <<Interp(Get(issue, "permalink"))>>))>>

\* The First Release section of formatDetailedIssue.
FirstReleaseChunks(issue) ==
    LET release == Get(issue, "firstRelease")
        projects == Elems(Get(release, "projects"))
    IN IF ~Truthy(release) THEN <<>>
       ELSE <<Call("createHeader", createHeader(<<"First Release">>, 2)),
              Call("createList",
                   createList(
                       <<Labelled("Version", <<Interp(Get(release, "version"))>>),
                         Labelled("Short Version",
                                  <<Interp(Get(release, "shortVersion"))>>),
                         Labelled("Date Created",
                                  <<Interp(Get(release, "dateCreated"))>>),
                         Labelled("First Event", <<Interp(Get(release, "firstEvent"))>>),
                         Labelled("Last Event", <<Interp(Get(release, "lastEvent"))>>)>>,
                       FALSE))>>
            \o (IF Truthy(Get(release, "projects")) /\ Len(projects) > 0
                THEN <<Call("createBold", createBold(<<"Projects">>) \o <<":\n">>),
                       Call("createList",
                            createList([i \in 1..Len(projects) |->
                                           <<Interp(Get(projects[i], "name")), " (",
                                             Interp(Get(projects[i], "slug")), ")">>],
                                       FALSE))>>
                ELSE <<>>)

\* The Tags section of formatDetailedIssue.
IssueTagsChunks(issue) ==
    LET tags == Elems(Get(issue, "tags"))
    IN IF ~(Truthy(Get(issue, "tags")) /\ Len(tags) > 0) THEN <<>>
       ELSE <<Call("createHeader", createHeader(<<"Tags">>, 2))>>
            \o (IF isMarkdown
                THEN <<Call("createTable",
                            createTable(<<<<"Key">>, <<"Value">>>>,
                                        [k \in 1..Len(tags) |->
                                            <<<<Interp(Get(tags[k], "key"))>>,
                                              <<Interp(Get(tags[k], "value"))>>>>]))>>
                ELSE [k \in 1..Len(tags) |->
                         Raw(<<Interp(Get(tags[k], "key")), ": ",
                               Interp(Get(tags[k], "value")), "\n">>)]
                     \o <<Raw(<<"\n">>)>>)

formatDetailedIssue(issue) ==
    LET project == Get(issue, "project")
    IN IF Nullish(project) THEN CannotRead(project, "name")
       ELSE <<Call("createHeader",
                   createHeader(<<"Issue: ", Interp(Get(issue, "title"))>>, 1)),
              Call("createHeader", createHeader(<<"Overview">>, 2)),
              Call("createList", createList(IssueOverview(issue), FALSE)),
              Call("createHeader", createHeader(<<"Project">>, 2)),
              Call("createList",
                   createList(<<Labelled("Name", <<Interp(Get(project, "name"))>>),
                                Labelled("ID", <<Interp(Get(project, "id"))>>),
                                Labelled("Slug", <<Interp(Get(project, "slug"))>>)>>,
                              FALSE))>>
            \o FirstReleaseChunks(issue)
            \o IssueTagsChunks(issue)
            \o StatsChunks(issue, 2)

\* total24h after the loop over the buckets, counted in the bucket count
\* instead of the counts of the buckets.
RECURSIVE Total24h_BucketCount(_)
Total24h_BucketCount(buckets) ==
    IF buckets = <<>> THEN 0 ELSE 1 + Total24h_BucketCount(Tail(buckets))

\* total24h after the loop over the buckets: 0 + count + count + ...
RECURSIVE Total24h(_)
Total24h(buckets) ==
    IF buckets = <<>> THEN 0
    ELSE Total24h(SubSeq(buckets, 1, Len(buckets) - 1))
         + Elems(buckets[Len(buckets)])[2].n

formatSummaryIssue(issue) ==
    LET project == Get(issue, "project")
        buckets == Stats24h(issue)
    IN IF Nullish(project) THEN CannotRead(project, "name")
       ELSE <<Call("createHeader",
                   createHeader(<<"Issue: ", Interp(Get(issue, "title"))>>, 1)),
              Call("createList",
                   createList(
                       <<Labelled("Short ID", <<Interp(Get(issue, "shortId"))>>),
                         Labelled("Status", <<Interp(Get(issue, "status"))>>)
                             \o <<", ">>
                             \o Labelled("Level", <<Interp(Get(issue, "level"))>>),
                         Labelled("First Seen", <<Interp(Get(issue, "firstSeen"))>>)
                             \o <<", ">>
                             \o Labelled("Last Seen",
                                         <<Interp(Get(issue, "lastSeen"))>>),
                         Labelled("Events", <<Interp(Get(issue, "count"))>>)
                             \o <<", ">>
                             \o Labelled("Users Affected",
                                         <<Interp(Get(issue, "userCount"))>>),
                         Labelled("Project", <<Interp(Get(project, "name"))>>),
                         Labelled("Permalink",
                                  createLink(<<Interp(Get(issue, "permalink"))>>,
                                             <<Interp(Get(issue, "permalink"))>>))>>,
                       FALSE))>>
            \o (IF buckets = <<>> THEN <<>>
                ELSE <<Raw(<<"\n">> \o createBold(<<"24-Hour Event Count">>)
                           \o <<": ", ToString(Total24h(buckets)), "\n">>)>>)

formatIssueDetails(issue) ==
    IF isDetailed THEN formatDetailedIssue(issue) ELSE formatSummaryIssue(issue)

-----------------------------------------------------------------------------
(* IssueFormatter: the event lists.                                        *)

\* event.eventID || event.id
EventIdOf(ev) ==
    IF Truthy(Get(ev, "eventID")) THEN Get(ev, "eventID") ELSE Get(ev, "id")

\* The list of the truthy ones of user.id, email, username, ip_address.
UserDetails(user) ==
    (IF Truthy(Get(user, "id"))
     THEN <<Labelled("ID", <<Interp(Get(user, "id"))>>)>> ELSE <<>>)
    \o (IF Truthy(Get(user, "email"))
        THEN <<Labelled("Email", <<Interp(Get(user, "email"))>>)>> ELSE <<>>)
    \o (IF Truthy(Get(user, "username"))
        THEN <<Labelled("Username", <<Interp(Get(user, "username"))>>)>> ELSE <<>>)
    \o (IF Truthy(Get(user, "ip_address"))
        THEN <<Labelled("IP Address", <<Interp(Get(user, "ip_address"))>>)>> ELSE <<>>)

\* One pass of the loop of formatDetailedEventList.
EventSection(ev, i) ==
    LET tags == Elems(Get(ev, "tags"))
        user == Get(ev, "user")
        name == IF Truthy(Get(ev, "title")) THEN Get(ev, "title") ELSE EventIdOf(ev)
    IN <<Call("createHeader",
              createHeader(<<"Event ", ToString(i), ": ", Interp(name)>>, 3)),
         Call("createList",
              createList(
                  <<Labelled("Event ID", <<Interp(EventIdOf(ev))>>),
                    Labelled("Date Created", <<Interp(Get(ev, "dateCreated"))>>),
                    Labelled("Platform", OrElse(Get(ev, "platform"), "N/A")),
                    Labelled("Type",
                             IF Truthy(Get(ev, "event.type"))
                             THEN <<Interp(Get(ev, "event.type"))>>
                             ELSE OrElse(Get(ev, "type"), "N/A")),
                    Labelled("Location", OrElse(Get(ev, "location"), "N/A")),
                    Labelled("Culprit", OrElse(Get(ev, "culprit"), "N/A"))>>,
                  FALSE))>>
       \o (IF Truthy(Get(ev, "tags")) /\ Len(tags) > 0
           THEN <<Call("createHeader", createHeader(<<"Tags">>, 4))>>
                \o (IF isMarkdown
                    THEN <<Call("createTable",
                                createTable(<<<<"Key">>, <<"Value">>>>,
                                            [k \in 1..Len(tags) |->
                                                <<<<Interp(Get(tags[k], "key"))>>,
                                                  <<Interp(Get(tags[k], "value"))>>>>]))>>
                    ELSE [k \in 1..Len(tags) |->
                             Raw(<<Interp(Get(tags[k], "key")), ": ",
                                   Interp(Get(tags[k], "value")), "\n">>)]
                         \o <<Raw(<<"\n">>)>>)
           ELSE <<>>)
       \o (IF Truthy(user)
           THEN <<Call("createHeader", createHeader(<<"User Information">>, 4))>>
                \o (IF Len(UserDetails(user)) > 0
                    THEN <<Call("createList", createList(UserDetails(user), FALSE))>>
                    ELSE <<>>)
           ELSE <<>>)
       \o <<Call("createSeparator", createSeparator)>>

formatDetailedEventList(evs, issueTitle) ==
    <<Call("createHeader", createHeader(<<"Events for ", issueTitle>>, 1))>>
    \o (IF isMarkdown
        THEN <<Call("createTable",
                    createTable(<<<<"Event ID">>, <<"Title">>, <<"Platform">>,
                                  <<"Date Created">>, <<"Location">>>>,
                                [i \in 1..Len(evs) |->
                                    <<<<Interp(EventIdOf(evs[i]))>>,
                                      OrElse(Get(evs[i], "title"), "N/A"),
                                      OrElse(Get(evs[i], "platform"), "N/A"),
                                      OrElse(Get(evs[i], "dateCreated"), "N/A"),
                                      OrElse(Get(evs[i], "location"), "N/A")>>]))>>
        ELSE <<>>)
    \o <<Call("createHeader", createHeader(<<"Event Details">>, 2))>>
    \o Concat([i \in 1..Len(evs) |-> EventSection(evs[i], i)])
    \o <<Call("createHeader", createHeader(<<"Summary">>, 2)),
         Raw(<<"Total Events: ", ToString(Len(evs)), "\n">>)>>

\* event.tags?.find((tag) => tag.key === key)?.value || "unknown"
TagOrUnknown(ev, key) ==
    LET tags == Elems(Get(ev, "tags"))
        hits == {k \in 1..Len(tags) : Get(tags[k], "key") = Str(key)}
    IN IF hits = {} THEN <<"unknown">>
       ELSE OrElse(Get(tags[CHOOSE k \in hits : \A j \in hits : k <= j], "value"),
                   "unknown")

formatSummaryEventList(evs, issueTitle) ==
    <<Call("createHeader", createHeader(<<"Events for ", issueTitle>>, 1)),
      Call("createList",
           createList([i \in 1..Len(evs) |->
                          Labelled("Event ID", <<Interp(EventIdOf(evs[i]))>>)
                          \o <<"\n  - ", "Title: ">> \o OrElse(Get(evs[i], "title"), "N/A")
                          \o <<"\n  - ", "Level: ">> \o TagOrUnknown(evs[i], "level")
                          \o <<", Environment: ">> \o TagOrUnknown(evs[i], "environment")
                          \o <<", Platform: ">> \o OrElse(Get(evs[i], "platform"), "N/A")
                          \o <<"\n  - ", "Date: ", Interp(Get(evs[i], "dateCreated"))>>],
                      FALSE)),
      Raw(<<"Total Events: ", ToString(Len(evs))>>)>>

formatEventList(evs, issueTitle) ==
    IF Len(evs) = 0
    THEN <<Call("createHeader", createHeader(<<"Events for ", issueTitle>>, 1)),
           Raw(<<"No events found for this issue.\n">>)>>
    ELSE IF isDetailed
    THEN formatDetailedEventList(evs, issueTitle)
    ELSE formatSummaryEventList(evs, issueTitle)

-----------------------------------------------------------------------------
(* IssueFormatter.formatSingleEvent (issueFormatter.ts, 49-227).           *)

\* Object.assign(target, source) on the property maps of two objects.
Assign(target, source) ==
    [k \in DOMAIN target \cup DOMAIN source |->
        IF k \in DOMAIN source THEN source[k] ELSE target[k]]

\* if (obj && Object.keys(obj).length > 0) Object.assign(target, obj)
AssignIfNonEmpty(target, obj) ==
    IF Truthy(obj) /\ Keys(obj) # {} THEN Assign(target, obj.m) ELSE target

\* if (obj) Object.assign(target, obj)
AssignIfTruthy(target, obj) ==
    IF Truthy(obj) /\ obj.t = "obj" THEN Assign(target, obj.m) ELSE target

\* a === b: two objects are equal when they are the same object.
StrictEquals(a, b) ==
    IF a.t = "obj" /\ b.t = "obj"
    THEN "ref" \in DOMAIN a /\ "ref" \in DOMAIN b /\ a.ref = b.ref
    ELSE a = b

\* IndexOf with objects compared by their contents.
IndexOf_ByContents(arr, x) ==
    LET hits == {i \in 1..Len(arr) : arr[i].m = x.m}
    IN IF hits = {} THEN -1
       ELSE (CHOOSE i \in hits : \A j \in hits : i <= j) - 1

\* Array.prototype.indexOf: the first index (from 0) of x, or -1.
IndexOf(arr, x) ==
    LET hits == {i \in 1..Len(arr) : StrictEquals(arr[i], x)}
    IN IF hits = {} THEN -1
       ELSE (CHOOSE i \in hits : \A j \in hits : i <= j) - 1

\* Array.prototype.filter(keep) is SelectSeq(arr, keep): the elements that
\* satisfy the test, in their order.

\* arr.slice(-n)
SliceLast(arr, n) ==
    SubSeq(arr, (IF Len(arr) > n THEN Len(arr) - n + 1 ELSE 1), Len(arr))

\* String.prototype.trim of a string given by its characters.
IsSpace(c) == c \in {" ", "\t", "\n", "\r"}

RECURSIVE TrimStart(_)
TrimStart(cs) ==
    IF cs # <<>> /\ IsSpace(Head(cs)) THEN TrimStart(Tail(cs)) ELSE cs

RECURSIVE TrimEnd(_)
TrimEnd(cs) ==
    IF cs # <<>> /\ IsSpace(cs[Len(cs)])
    THEN TrimEnd(SubSeq(cs, 1, Len(cs) - 1)) ELSE cs

Trim(cs) == TrimEnd(TrimStart(cs))

\* event.entries.find((entry) => entry.type === "stacktrace"), when
\* event.entries is there and not empty.
StacktraceEntry(event) ==
    LET entries == Elems(Get(event, "entries"))
        hits == {i \in 1..Len(entries) : Get(entries[i], "type") = Str("stacktrace")}
    IN IF hits = {} THEN Undefined
       ELSE entries[CHOOSE i \in hits : \A j \in hits : i <= j]

\* stacktraceEntry && stacktraceEntry.data && stacktraceEntry.data.frames
HasFrames(event) ==
    /\ Truthy(StacktraceEntry(event))
    /\ Truthy(Get(StacktraceEntry(event), "data"))
    /\ Truthy(Get(Get(StacktraceEntry(event), "data"), "frames"))

FramesOf(event) == Elems(Get(Get(StacktraceEntry(event), "data"), "frames"))

\* find without the reverse: the first frame with a non-empty vars map.
FrameWithVars_FromTheStart(frames) ==
    LET hits == {i \in 1..Len(frames) :
                    Truthy(Get(frames[i], "vars")) /\ Keys(Get(frames[i], "vars")) # {}}
    IN IF hits = {} THEN Undefined
       ELSE frames[CHOOSE i \in hits : \A j \in hits : i <= j]

\* frames.slice().reverse().find((frame) => frame.vars && keys(vars) > 0)
FrameWithVars(frames) ==
    LET hits == {i \in 1..Len(frames) :
                    Truthy(Get(frames[i], "vars")) /\ Keys(Get(frames[i], "vars")) # {}}
    IN IF hits = {} THEN Undefined
       ELSE frames[CHOOSE i \in hits : \A j \in hits : i >= j]

\* What the stack-trace fallback adds to additionalData (lines 113-150).
AssignFrameVars(data, event) ==
    IF ~HasFrames(event) THEN data
    ELSE
        LET frameWithVars == FrameWithVars(FramesOf(event))
            fvars == Get(frameWithVars, "vars")
            record == Get(fvars, "record")
            d1 == AssignIfTruthy(data, Get(fvars, "context"))
        IN IF ~(Truthy(frameWithVars) /\ Truthy(fvars)) THEN data
           ELSE IF Truthy(record) /\ record.t \in {"obj", "arr"}
           THEN AssignIfTruthy(AssignIfTruthy(d1, Get(record, "context")),
                               Get(record, "extra"))
           ELSE d1

\* The three merges of lines 96-111.
AssignEventMaps(event) ==
    AssignIfNonEmpty(
        AssignIfNonEmpty(
            AssignIfNonEmpty(<<>>, Get(event, "context")),
            Get(event, "contexts")),
        Get(event, "extra"))

\* additionalData as line 152 finds it.
AdditionalData(event) == AssignFrameVars(AssignEventMaps(event), event)

AdditionalDataChunks(event) ==
    IF DOMAIN AdditionalData(event) = {} THEN <<>>
    ELSE <<Call("createHeader", createHeader(<<"Additional Data">>, 2)),
           Raw(<<Fence, "json\n">>),
           [prim |-> "JSON.stringify", text |-> <<"<json>">>,
            data |-> AdditionalData(event)],
           Raw(<<"\n", Fence, "\n\n">>)>>

InApp(frame) == Truthy(Get(frame, "inApp"))

\* FramesToShow with slice(0, 5) for slice(-5).
FramesToShow_FirstFive(frames) ==
    IF Len(SelectSeq(frames, InApp)) > 0
    THEN SubSeq(SelectSeq(frames, InApp), 1,
                IF Len(SelectSeq(frames, InApp)) < 5 THEN Len(SelectSeq(frames, InApp)) ELSE 5)
    ELSE SliceLast(frames, 10)

\* const framesToShow = appFrames.length > 0 ? appFrames.slice(-5) : frames.slice(-10)
FramesToShow(frames) ==
    IF Len(SelectSeq(frames, InApp)) > 0
    THEN SliceLast(SelectSeq(frames, InApp), 5)
    ELSE SliceLast(frames, 10)

\* frames.indexOf(frame) + 1
FrameNum(frames, frame) == IndexOf(frames, frame) + 1

\* The context line of the frame's own line number, when it has one.
ContextLine(frame) ==
    LET lines == Elems(Get(frame, "context"))
        hits == {i \in 1..Len(lines) :
                    StrictEquals(Elems(lines[i])[1], Get(frame, "lineNo"))}
    IN IF hits = {} THEN Undefined
       ELSE lines[CHOOSE i \in hits : \A j \in hits : i <= j]

\* One pass of framesToShow.forEach: the chunk also names the frame object
\* it was made from.
FrameChunk(frames, frame) ==
    [prim |-> "frame",
     frame |-> frame,
     text |->
        <<"**", "Frame ", ToString(FrameNum(frames, frame)), "**", ": ", Backtick,
          Interp(Get(frame, "filename")), ":", Interp(Get(frame, "lineNo")),
          Backtick, "\n">>
        \o <<"- Function: ", Backtick>> \o OrElse(Get(frame, "function"), "N/A")
        \o <<Backtick, "\n">>
        \o (IF Truthy(ContextLine(frame))
            THEN <<"- Code: ", Backtick>> \o Trim(Elems(ContextLine(frame))[2].c)
                 \o <<Backtick, "\n">>
            ELSE <<>>)
        \o <<"\n">>]

StackTraceChunks(event) ==
    IF ~HasFrames(event) THEN <<>>
    ELSE
        LET frames == FramesOf(event)
            framesToShow == FramesToShow(frames)
        IN <<Call("createHeader", createHeader(<<"Stack Trace">>, 2))>>
           \o [i \in 1..Len(framesToShow) |-> FrameChunk(frames, framesToShow[i])]
           \o (IF Len(SelectSeq(frames, InApp)) < Len(frames)
               THEN <<[prim |-> "note",
                       text |-> <<"*Showing ", ToString(Len(framesToShow)),
                                  " most relevant frames (", ToString(Len(frames)),
                                  " total)*\n\n">>]>>
               ELSE <<>>)

ImportantTags == {"environment", "level", "release", "server_name", "runtime"}

IsImportantTag(tag) ==
    Get(tag, "key").t = "str" /\ Get(tag, "key").u \in ImportantTags

EnvironmentChunks(event) ==
    LET tags == Elems(Get(event, "tags"))
        filteredTags == SelectSeq(tags, IsImportantTag)
    IN IF ~(Truthy(Get(event, "tags")) /\ Len(tags) > 0) THEN <<>>
       ELSE <<Call("createHeader", createHeader(<<"Environment">>, 2))>>
            \o (IF Len(filteredTags) = 0 THEN <<>>
                ELSE IF isMarkdown
                THEN <<Call("createTable",
                            createTable(<<<<"Key">>, <<"Value">>>>,
                                        [k \in 1..Len(filteredTags) |->
                                            <<<<Interp(Get(filteredTags[k], "key"))>>,
                                              <<Interp(Get(filteredTags[k], "value"))>>>>]))>>
                ELSE <<Call("createList",
                            createList([k \in 1..Len(filteredTags) |->
                                           <<Interp(Get(filteredTags[k], "key")), ": ",
                                             Interp(Get(filteredTags[k], "value"))>>],
                                       FALSE))>>)

UserChunks(event) ==
    LET user == Get(event, "user")
    IN IF ~(Truthy(user) /\ \E k \in Keys(user) : Truthy(Get(user, k))) THEN <<>>
       ELSE <<Call("createHeader", createHeader(<<"User Information">>, 2))>>
            \o (IF Len(UserDetails(user)) > 0
                THEN <<Call("createList", createList(UserDetails(user), FALSE))>>
                ELSE <<>>)

\* event.title || event.metadata?.title || "N/A"
EventTitle(event) ==
    IF Truthy(Get(event, "title")) THEN <<Interp(Get(event, "title"))>>
    ELSE OrElse(Get(Get(event, "metadata"), "title"), "N/A")

formatSingleEvent(event, eventId) ==
    <<Call("createHeader", createHeader(<<"Event Details: ", eventId>>, 1)),
      Call("createHeader", createHeader(<<"Error Overview">>, 2)),
      Call("createList",
           createList(<<Labelled("Title", EventTitle(event)),
                        Labelled("Platform", OrElse(Get(event, "platform"), "N/A")),
                        Labelled("Date", <<Interp(Get(event, "dateCreated"))>>),
                        Labelled("Culprit", OrElse(Get(event, "culprit"), "N/A"))>>,
                      FALSE))>>
    \o EnvironmentChunks(event)
    \o AdditionalDataChunks(event)
    \o StackTraceChunks(event)
    \o UserChunks(event)

-----------------------------------------------------------------------------
(* What formatSingleEvent does to the event it is given.  Two of the      *)
(* operations it calls change the object they are called on: Object.assign *)
(* its target, which is always the additionalData made at line 96, and     *)
(* reverse its receiver (line 125).                                        *)

\* An array of the heap: the place where it is kept and its elements.
ArrayAt(place, elems) == [place |-> place, elems |-> elems]

\* stacktraceEntry.data.frames
FramesArray(event) == ArrayAt("stacktraceEntry.data.frames", FramesOf(event))

\* reverse called on the array itself.
Slice_Receiver(array) == array

\* array.slice(): a new array with the elements of the receiver.
Slice(array) == ArrayAt("slice()", array.elems)

\* array.reverse(): the receiver, its elements in the opposite order.
Reverse(array) ==
    ArrayAt(array.place,
            [i \in 1..Len(array.elems) |-> array.elems[Len(array.elems) + 1 - i]])

\* The event with these frames in its stacktrace entry.
WithFrames(event, frames) ==
    LET entries == Elems(Get(event, "entries"))
        hits == {i \in 1..Len(entries) : Get(entries[i], "type") = Str("stacktrace")}
        k == CHOOSE i \in hits : \A j \in hits : i <= j
        data == Get(entries[k], "data")
        newData == Obj([data.m EXCEPT !["frames"] = Arr(frames)])
        newEntry == Obj([entries[k].m EXCEPT !["data"] = newData])
    IN Obj([event.m EXCEPT !["entries"] = Arr([entries EXCEPT ![k] = newEntry])])

\* The event as the method leaves it: frames.slice().reverse() has written
\* the array it was called on.
formatSingleEvent_Leaves(event) ==
    IF ~HasFrames(event) THEN event
    ELSE LET reversed == Reverse(Slice(FramesArray(event)))
         IN IF reversed.place = FramesArray(event).place
            THEN WithFrames(event, reversed.elems)
            ELSE event

-----------------------------------------------------------------------------
(* extract_issue_context_data (src/src/index.ts, 362-425).                 *)

\* const sources = [event.contexts, event.extra, event.context, event]
Sources(ev) ==
    <<Get(ev, "contexts"), Get(ev, "extra"), Get(ev, "context"), ev>>

\* const eventData = { event_id: event.id, timestamp: event.dateCreated }
NewEventData(ev) ==
    Obj([event_id |-> Get(ev, "id"), timestamp |-> Get(ev, "dateCreated")])

\* obj[key] = value
Put(obj, key, value) ==
    Obj([k \in DOMAIN obj.m \cup {key} |-> IF k = key THEN value ELSE obj.m[k]])

\* The loop over the sources for one field, from source i on: the state is
\* the event's record and the Sets of unique values.
RECURSIVE ScanSources(_, _, _, _)
ScanSources(st, sources, field, i) ==
    IF i > Len(sources) THEN st
    ELSE IF /\ Truthy(sources[i])
            /\ Get(sources[i], field) # Undefined
            /\ Get(st.eventData, field) = Undefined
    THEN [eventData |-> Put(st.eventData, field, Get(sources[i], field)),
          uniqueValues |->
              [st.uniqueValues EXCEPT
                  ![field] = SetAdd(@, ToStr(Get(sources[i], field)))]]
    ELSE ScanSources(st, sources, field, i + 1)

\* extract_fields.forEach over the fields from position k on, for one event.
RECURSIVE ScanFields(_, _, _, _)
ScanFields(st, sources, fields, k) ==
    IF k > Len(fields) THEN st
    ELSE ScanFields(ScanSources(st, sources, fields[k], 1), sources, fields, k + 1)

\* extract_fields.some((field) => eventData[field] !== undefined)
HasData(eventData, fields) ==
    \E k \in 1..Len(fields) : Get(eventData, fields[k]) # Undefined

\* events.forEach from event n on: acc holds extractedData and uniqueValues.
RECURSIVE ScanEvents(_, _, _, _)
ScanEvents(acc, evs, fields, n) ==
    IF n > Len(evs) THEN acc
    ELSE
        LET st == ScanFields([eventData |-> NewEventData(evs[n]),
                              uniqueValues |-> acc.uniqueValues],
                             Sources(evs[n]), fields, 1)
        IN ScanEvents(
               [extractedData |->
                    IF HasData(st.eventData, fields)
                    THEN Append(acc.extractedData, st.eventData)
                    ELSE acc.extractedData,
                uniqueValues |-> st.uniqueValues],
               evs, fields, n + 1)

\* Array.from(uniqueValues[field]) without the sort: the order of insertion.
UniqueValuesResult_Unsorted(set) == set

\* Array.from(uniqueValues[field]).sort()
UniqueValuesResult(set) == SortStrings(set)

\* The result object of the handler.
ExtractResult(evs, fields) ==
    LET names == {fields[k] : k \in 1..Len(fields)}
        acc == ScanEvents([extractedData |-> <<>>,
                           uniqueValues |-> [f \in names |-> <<>>]],
                          evs, fields, 1)
    IN [extracted_data |-> acc.extractedData,
        unique_values |->
            [f \in names |-> UniqueValuesResult(acc.uniqueValues[f])],
        total_events |-> Len(evs),
        events_with_data |-> Len(acc.extractedData)]

-----------------------------------------------------------------------------
(* The inputs of the extraction.                                           *)

S_42 == <<52, 50>>
S_7 == <<55>>
S_x9 == <<120, 57>>

SourceNames == {"contexts", "extra", "context", "root"}

\* What a source holds for roomId when it defines it: the number 42 and the
\* string "42" have one string form, and "100" < "42" < "7" as strings.
RoomIdOf(src) ==
    CASE src = "contexts" -> Num(42)
      [] src = "extra" -> Str(S_42)
      [] src = "context" -> Str(S_7)
      [] OTHER -> Num(100)

\* The n-th event of a batch: its sources in shape.defs define roomId, it has
\* the id "e<n>" when shape.hasId and contexts.event_id = "x9" when
\* shape.ctxEventId; its dateCreated is "T<n>".
MakeEvent(shape, n) ==
    LET defs == shape.defs
        ctxKeys == (IF "contexts" \in defs THEN {"roomId"} ELSE {})
                   \cup (IF shape.ctxEventId THEN {"event_id"} ELSE {})
        ctx == [k \in ctxKeys |->
                   IF k = "roomId" THEN RoomIdOf("contexts") ELSE Str(S_x9)]
        props == {"dateCreated"}
                 \cup (IF shape.hasId THEN {"id"} ELSE {})
                 \cup (IF ctxKeys # {} THEN {"contexts"} ELSE {})
                 \cup (IF "extra" \in defs THEN {"extra"} ELSE {})
                 \cup (IF "context" \in defs THEN {"context"} ELSE {})
                 \cup (IF "root" \in defs THEN {"roomId"} ELSE {})
    IN Obj([p \in props |->
               CASE p = "dateCreated" -> Str(<<84, 48 + n>>)
                 [] p = "id" -> Str(<<101, 48 + n>>)
                 [] p = "contexts" -> Obj(ctx)
                 [] p = "extra" -> Obj([k \in {"roomId"} |-> RoomIdOf("extra")])
                 [] p = "context" -> Obj([k \in {"roomId"} |-> RoomIdOf("context")])
                 [] OTHER -> RoomIdOf("root")])

EventShapes ==
    [defs : SUBSET SourceNames, hasId : {TRUE}, ctxEventId : {FALSE}]
    \cup [defs : {{}, {"extra"}}, hasId : BOOLEAN, ctxEventId : BOOLEAN]

\* The batches getIssueEvents resolves to.
Batches ==
    {[n \in 1..Len(shapes) |-> MakeEvent(shapes[n], n)] :
        shapes \in SeqsUpTo(EventShapes, MaxEvents)}

FieldNames == {"roomId", "event_id"}

-----------------------------------------------------------------------------
(* The specification of the extraction.                                    *)

InitExtract ==
    /\ pc = "call"
    /\ events \in Batches
    /\ extract_fields \in SeqsUpTo(FieldNames, MaxFields)
    /\ result = Unused
    /\ formatType = Unused
    /\ view = Unused
    /\ call = Unused
    /\ output = Unused
    /\ locals = Unused
    /\ requests = Unused
    /\ response = Unused

\* The handler, once getIssueEvents has resolved to events.
Extract ==
    /\ pc = "call"
    /\ result' = ExtractResult(events, extract_fields)
    /\ pc' = "return"
    /\ UNCHANGED <<events, extract_fields, formatType, view, call, output,
                   locals, requests, response>>

NextExtract == Extract

SpecExtract == InitExtract /\ [][NextExtract]_vars

-----------------------------------------------------------------------------
(* The inputs of the renderers.                                            *)

ProjectUniverse ==
    {Obj([id |-> Str("1"), name |-> Str("Demo"), slug |-> Str("demo"),
          teams |-> Arr(<<Obj([name |-> Str("core")])>>)]),
     Obj([id |-> Str("2"), name |-> Str("Api"), slug |-> Str("api"),
          platform |-> Str("node"),
          teams |-> Arr(<<Obj([name |-> Str("core")]), Obj([name |-> Str("ops")])>>),
          environments |-> Arr(<<Str("prod"), Str("dev")>>),
          features |-> Arr(<<Str("alerts")>>)]),
     Obj([id |-> Str("3"), name |-> Str("Web"), slug |-> Str("web"),
          teams |-> Arr(<<>>), environments |-> Arr(<<>>), features |-> Arr(<<>>)])}

IssueWith(id, extra) ==
    Obj(Assign([id |-> Str(id), shortId |-> Str("WEB-" \o id), title |-> Str("Boom"),
                status |-> Str("unresolved"), level |-> Str("error"),
                firstSeen |-> Str("2024-01-01T00:00:00Z"),
                lastSeen |-> Str("2024-01-02T00:00:00Z"),
                count |-> Str("8"), userCount |-> Num(2),
                culprit |-> Str("main"), permalink |-> Str("https://s/i/" \o id)],
               extra))

IssueUniverse ==
    {IssueWith("1", <<>>),
     IssueWith("2", [stats |-> Obj([24h |-> Arr(<<Arr(<<Num(1000), Num(5)>>),
                                                   Arr(<<Num(2000), Num(3)>>)>>)])]),
     IssueWith("3", [stats |-> Obj([24h |-> Arr(<<>>)])])}

ListEventUniverse ==
    {Obj([id |-> Str("e1"), dateCreated |-> Str("2024-01-01")]),
     Obj([eventID |-> Str("ab12"), id |-> Str("e2"), title |-> Str("Boom"),
          platform |-> Str("node"), dateCreated |-> Str("2024-01-02"),
          location |-> Str("app.js"), type |-> Str("error"), culprit |-> Str("main"),
          tags |-> Arr(<<Obj([key |-> Str("level"), value |-> Str("fatal")]),
                         Obj([key |-> Str("browser"), value |-> Str("ff")])>>),
          user |-> Obj([id |-> Str("u1"), email |-> Str("a@b.c")])]),
     Obj([id |-> Str("e3"), dateCreated |-> Str("2024-01-03"),
          tags |-> Arr(<<>>), user |-> Obj(<<>>)])}

\* The address of the i-th frame object of a parsed stack trace: JSON.parse
\* makes one object for each element of the array.
FrameRef(i) == 4096 + 16 * i

StackFrame(i, inApp, extra) ==
    ObjRef(FrameRef(i),
           Assign([filename |-> Str("app.js"), lineNo |-> Num(10),
                   function |-> Str("run"), inApp |-> Bool(inApp)],
                  extra))

EventWith(extra) ==
    Obj(Assign([id |-> Str("e1"), dateCreated |-> Str("2024-01-01"),
                title |-> Str("Boom")],
               extra))

StacktraceEntries(frames) ==
    [entries |-> Arr(<<Obj([type |-> Str("breadcrumbs")]),
                       Obj([type |-> Str("stacktrace"),
                            data |-> Obj([frames |-> Arr(frames)])])>>)]

\* Events that differ in their stack frames: every list of at most MaxFrames
\* frames, alike but for inApp.
StackEvents ==
    {EventWith(StacktraceEntries(
         [i \in 1..Len(flags) |-> StackFrame(i, flags[i], <<>>)])) :
        flags \in UNION {[1..n -> BOOLEAN] : n \in 0..MaxFrames}}

\* What each source of the Additional Data holds: the key "a" is common to
\* all of them, with a value that tells the source.
DataMaps(own, v) ==
    {Undefined, Obj(<<>>), Obj([a |-> Num(v)]),
     Obj([k \in {"a", own} |-> Num(v)])}

FrameVars ==
    {Undefined, Obj(<<>>), Obj([other |-> Num(9)]),
     Obj([context |-> Obj([a |-> Num(4), vc |-> Num(4)])]),
     Obj([record |-> Obj([context |-> Obj([a |-> Num(5)]),
                          extra |-> Obj([vr |-> Num(6)])])])}

WithOptional(base, key, value) ==
    IF value = Undefined THEN base ELSE Assign(base, [k \in {key} |-> value])

\* Events that differ in context, contexts, extra and the vars of at most
\* MaxVarFrames frames.
DataEvents ==
    {EventWith(
         Assign(WithOptional(WithOptional(WithOptional(<<>>, "context", c1),
                                          "contexts", c2),
                             "extra", c3),
                IF fv = <<>> THEN <<>>
                ELSE StacktraceEntries(
                         [i \in 1..Len(fv) |->
                             StackFrame(i, FALSE,
                                        WithOptional(<<>>, "vars", fv[i]))]))) :
        c1 \in DataMaps("c", 1), c2 \in DataMaps("cs", 2), c3 \in DataMaps("x", 3),
        fv \in SeqsUpTo(FrameVars, MaxVarFrames)}

TagLists ==
    {Undefined, Arr(<<>>),
     Arr(<<Obj([key |-> Str("browser"), value |-> Str("ff")])>>),
     Arr(<<Obj([key |-> Str("environment"), value |-> Str("prod")]),
           Obj([key |-> Str("browser"), value |-> Str("ff")]),
           Obj([key |-> Str("level"), value |-> Str("error")])>>)}

Users ==
    {Undefined, Obj(<<>>), Obj([id |-> Str("u1")]), Obj([name |-> Str("Ann")]),
     Obj([email |-> Str("a@b.c"), ip_address |-> Str("10.0.0.1"), id |-> Str("")])}

EntryLists ==
    {Undefined, Arr(<<>>), Arr(<<Obj([type |-> Str("breadcrumbs")])>>),
     Arr(<<Obj([type |-> Str("stacktrace")])>>),
     Arr(<<Obj([type |-> Str("stacktrace"),
                data |-> Obj([frames |-> Arr(<<
                    StackFrame(1, TRUE,
                               [context |-> Arr(<<
                                    Arr(<<Num(9), Chars(<<"a">>)>>),
                                    Arr(<<Num(10), Chars(<<" ", " ", "x", "=", "1", " ">>)>>)>>)]),
                    StackFrame(2, TRUE,
                               [context |-> Arr(<<Arr(<<Num(9), Chars(<<"a">>)>>)>>),
                                function |-> Undefined])>>)])])>>)}

\* Events that differ in tags, user, title and the shape of entries.
MiscEvents ==
    {Obj(WithOptional(WithOptional(WithOptional(WithOptional(
             [id |-> Str("e1"), dateCreated |-> Str("2024-01-01")],
             "tags", tags), "user", user), "entries", entries), titleKey, titleVal)) :
        tags \in TagLists, user \in Users, entries \in EntryLists,
        titleKey \in {"title", "metadata"},
        titleVal \in {Undefined, Str("Boom"), Obj([title |-> Str("Deep")])}}

\* The optional parts of an issue: what is there of each of them.
ProjectRefs == {Undefined, Obj([id |-> Str("7"), name |-> Str("Web"), slug |-> Str("web")])}

FirstReleases ==
    LET release == [version |-> Str("1.0.0"), shortVersion |-> Str("1.0"),
                    dateCreated |-> Str("2023-12-01"), firstEvent |-> Str("2023-12-02"),
                    lastEvent |-> Str("2023-12-03")]
    IN {Undefined, Null, Obj(release),
        Obj(Assign(release, [projects |-> Arr(<<>>)])),
        Obj(Assign(release,
                   [projects |-> Arr(<<Obj([name |-> Str("Web"), slug |-> Str("web")]),
                                       Obj([name |-> Str("Api"), slug |-> Str("api")])>>)]))}

IssueTags ==
    {Undefined, Arr(<<>>),
     Arr(<<Obj([key |-> Str("browser"), value |-> Str("ff")]),
           Obj([key |-> Str("level"), value |-> Str("error")])>>)}

Bucket(timestamp, count) == Arr(<<Num(timestamp), Num(count)>>)

IssueStats ==
    {Undefined, Obj(<<>>), Obj([24h |-> Arr(<<>>)]),
     Obj([24h |-> Arr(<<Bucket(1000, 5), Bucket(2000, 3)>>)]),
     Obj([24h |-> Arr(<<Bucket(1000, 0)>>)]),
     Obj([24h |-> Arr(<<Bucket(1000, 1), Bucket(2000, 1), Bucket(3000, 7)>>)])}

\* Issues that differ in the project reference, the first release, the tags
\* and the stats.
DetailIssues ==
    {IssueWith("1", WithOptional(WithOptional(WithOptional(WithOptional(
                        <<>>, "project", project), "firstRelease", release),
                        "tags", tags), "stats", stats)) :
        project \in ProjectRefs, release \in FirstReleases, tags \in IssueTags,
        stats \in IssueStats}

\* Tables of no, one and two columns with at most MaxItems rows.
TableCalls ==
    [fn : {"createTable"}, headers : {<<>>}, rows : SeqsUpTo({<<>>}, MaxItems)]
    \cup [fn : {"createTable"}, headers : {<<<<"Key">>>>},
          rows : SeqsUpTo({<<<<"a">>>>, <<<<"b">>>>}, MaxItems)]
    \cup [fn : {"createTable"}, headers : {<<<<"Key">>, <<"Value">>>>},
          rows : SeqsUpTo({<<<<"a">>, <<"1">>>>, <<<<"b">>, <<"2">>>>}, MaxItems)]

Calls ==
    [fn : {"ProjectFormatter.formatData"},
     projects : SeqsUpTo(ProjectUniverse, MaxItems)]
    \cup [fn : {"formatIssueList"}, issues : SeqsUpTo(IssueUniverse, MaxItems),
          projectSlug : {"web"}]
    \cup [fn : {"formatEventList"}, events : SeqsUpTo(ListEventUniverse, MaxItems),
          issueTitle : {"Boom"}]
    \cup [fn : {"formatSingleEvent"}, event : MiscEvents, eventId : {"e1"}]
    \cup TableCalls
    \cup [fn : {"formatIssueDetails"}, issue : DetailIssues]

LargeCalls ==
    [fn : {"formatSingleEvent"}, event : StackEvents \cup DataEvents, eventId : {"e1"}]

-----------------------------------------------------------------------------
(* The specification of the renderers: a formatter is constructed with its *)
(* options and one entry point is called.  formatSingleEvent does not read *)
(* the view: the events of MiscEvents are rendered with both views, those  *)
(* of the two large families with the default one.                         *)

InitRender ==
    /\ pc = "call"
    /\ formatType \in {"markdown", "plain"}
    /\ \/ call \in Calls /\ view \in {"summary", "detailed"}
       \/ call \in LargeCalls /\ view = "detailed"
    /\ output = Unused
    /\ events = Unused
    /\ extract_fields = Unused
    /\ result = Unused
    /\ locals = Unused
    /\ requests = Unused
    /\ response = Unused

\* The entry point returns its string, or an exception leaves it.
Return(chunks) ==
    /\ output' = chunks
    /\ pc' = IF Throws(chunks) THEN "throw" ELSE "return"
    /\ UNCHANGED <<events, extract_fields, result, formatType, view, call,
                   locals, requests, response>>

FormatProjects ==
    /\ pc = "call"
    /\ call.fn = "ProjectFormatter.formatData"
    /\ Return(ProjectFormatter_formatData(call.projects))

FormatIssueList ==
    /\ pc = "call"
    /\ call.fn = "formatIssueList"
    /\ Return(formatIssueList(call.issues, call.projectSlug))

FormatEventList ==
    /\ pc = "call"
    /\ call.fn = "formatEventList"
    /\ Return(formatEventList(call.events, call.issueTitle))

FormatSingleEvent ==
    /\ pc = "call"
    /\ call.fn = "formatSingleEvent"
    /\ output' = formatSingleEvent(call.event, call.eventId)
    /\ pc' = IF Throws(output') THEN "throw" ELSE "return"
    /\ call' = [call EXCEPT !.event = formatSingleEvent_Leaves(call.event)]
    /\ UNCHANGED <<events, extract_fields, result, formatType, view, locals,
                   requests, response>>

\* A renderer builds a table: the primitive is called with headers and rows.
CreateTable ==
    /\ pc = "call"
    /\ call.fn = "createTable"
    /\ Return(<<Call("createTable", createTable(call.headers, call.rows))>>)

FormatIssueDetails ==
    /\ pc = "call"
    /\ call.fn = "formatIssueDetails"
    /\ Return(formatIssueDetails(call.issue))

NextRender ==
    \/ FormatProjects
    \/ FormatIssueList
    \/ FormatEventList
    \/ FormatSingleEvent
    \/ CreateTable
    \/ FormatIssueDetails

SpecRender == InitRender /\ [][NextRender]_vars

-----------------------------------------------------------------------------
(* The core as a whole: a renderer is called or the extraction is run.     *)

InitCore == InitRender \/ InitExtract

NextCore ==
    \/ call # Unused /\ FormatProjects
    \/ call # Unused /\ FormatIssueList
    \/ call # Unused /\ FormatEventList
    \/ call # Unused /\ FormatSingleEvent
    \/ call # Unused /\ CreateTable
    \/ call # Unused /\ FormatIssueDetails
    \/ call = Unused /\ Extract

SpecCore == InitCore /\ [][NextCore]_vars

-----------------------------------------------------------------------------
(* The claims about the extraction.                                        *)

\* The value of field in the first of contexts, extra, context and the event
\* itself that defines one; undefined when none does.
FirstDefined(ev, field) ==
    LET srcs == Sources(ev)
        defining == {i \in 1..Len(srcs) : Get(srcs[i], field) # Undefined}
    IN IF defining = {} THEN Undefined
       ELSE Get(srcs[CHOOSE i \in defining : \A j \in defining : i <= j], field)

\* At least one requested field resolved from the sources of the event.
Resolves(ev, fields) ==
    \E k \in 1..Len(fields) : FirstDefined(ev, fields[k]) # Undefined

\* The positions in extracted_data of the records of event n (dateCreated
\* tells the events of a batch apart).
RecordsOf(n) ==
    {i \in 1..Len(result.extracted_data) :
        Get(result.extracted_data[i], "timestamp") = Get(events[n], "dateCreated")}

\* s is the ascending, duplicate-free list of the strings of S.
IsSortedListOf(s, S) ==
    /\ {s[i] : i \in 1..Len(s)} = S
    /\ \A i \in 1..Len(s) : \A j \in 1..Len(s) : i < j => StrLess(s[i], s[j])

\* C1: for every event and every requested field, the event's output record
\* holds the value of the first of contexts, extra, context, event that
\* defines the field, and does not hold the field when none defines it.
C1_FirstSourceWins ==
    pc = "return" =>
        \A n \in 1..Len(events) : \A k \in 1..Len(extract_fields) :
            \A i \in RecordsOf(n) :
                Get(result.extracted_data[i], extract_fields[k])
                    = FirstDefined(events[n], extract_fields[k])

\* C2: unique_values[f] is the ascending, duplicate-free list of the string
\* forms of exactly the values the output records hold for f.
C2_UniqueValuesOfRecorded ==
    pc = "return" =>
        \A k \in 1..Len(extract_fields) :
            LET f == extract_fields[k]
                recorded ==
                    {ToStr(Get(result.extracted_data[i], f)) :
                        i \in {j \in 1..Len(result.extracted_data) :
                                  Get(result.extracted_data[j], f) # Undefined}}
            IN IsSortedListOf(result.unique_values[f], recorded)

\* C3: events_with_data <= total_events, with equality exactly when every
\* event resolved at least one requested field from its sources.
C3_EventsWithDataCount ==
    pc = "return" =>
        /\ result.events_with_data <= result.total_events
        /\ (result.events_with_data = result.total_events
                <=> \A n \in 1..Len(events) : Resolves(events[n], extract_fields))

\* C4: an event has a record in extracted_data only if a requested field
\* resolved for it, an event without one has no record and is still counted
\* in total_events, and the records are in the order of the events.
C4_OnlyResolvedEventsKept ==
    pc = "return" =>
        /\ result.total_events = Len(events)
        /\ \A n \in 1..Len(events) :
               Cardinality(RecordsOf(n))
                   = (IF Resolves(events[n], extract_fields) THEN 1 ELSE 0)
        /\ \A n \in 1..Len(events) : \A m \in 1..Len(events) :
               \A i \in RecordsOf(n) : \A j \in RecordsOf(m) :
                   n < m => i < j

-----------------------------------------------------------------------------
(* The claims about formatSingleEvent.                                     *)

Returned(fn) == pc = "return" /\ call.fn = fn

\* The chunks of the frames shown in the Stack Trace section, in order.
IsFrameChunk(chunk) == chunk.prim = "frame"
ShownFrames == SelectSeq(output, IsFrameChunk)

\* For each frame shown, in order, the position in the full frame list of
\* the frame object its chunk was made from.
ShownPositions ==
    LET frames == FramesOf(call.event)
        shown == ShownFrames
    IN [k \in 1..Len(shown) |->
           CHOOSE i \in 1..Len(frames) : frames[i].ref = shown[k].frame.ref]

\* The positions of the frames with inApp = true.
AppPositions ==
    LET frames == FramesOf(call.event)
    IN {i \in 1..Len(frames) : Get(frames[i], "inApp") = Bool(TRUE)}

\* P holds the last `most` members of S, all of S when it has fewer.
IsLastOf(P, S, most) ==
    /\ P \subseteq S
    /\ Cardinality(P) = (IF Cardinality(S) < most THEN Cardinality(S) ELSE most)
    /\ \A p \in P : \A q \in S \ P : q < p

\* C5: when some frame has inApp = true the frames shown are the last 5
\* inApp frames (all of them when there are fewer), in their original order;
\* when none has, they are the last 10 frames (all of them when fewer).
C5_FrameSelection ==
    (Returned("formatSingleEvent") /\ HasFrames(call.event)) =>
        LET pos == ShownPositions
            app == AppPositions
            P == {pos[k] : k \in 1..Len(pos)}
        IN /\ \A k \in 1..Len(pos) : \A l \in 1..Len(pos) : k < l => pos[k] < pos[l]
           /\ IF app # {}
              THEN IsLastOf(P, app, 5)
              ELSE IsLastOf(P, 1..Len(FramesOf(call.event)), 10)

\* A trace of more than 10 frames, more than 5 of them inApp, has been
\* rendered with 5 frames shown.
C5_Witness ==
    /\ Returned("formatSingleEvent")
    /\ HasFrames(call.event)
    /\ Len(FramesOf(call.event)) > 10
    /\ Cardinality(AppPositions) > 5
    /\ Len(ShownFrames) = 5

\* C6: every frame shown is labelled with its 1-based position in the full
\* frame list, also when frames of the list have equal contents.
C6_FrameLabels ==
    (Returned("formatSingleEvent") /\ HasFrames(call.event)) =>
        LET pos == ShownPositions
            shown == ShownFrames
        IN \A k \in 1..Len(shown) :
               /\ shown[k].text[2] = "Frame "
               /\ shown[k].text[3] = ToString(pos[k])

\* Two frames of equal contents are shown, and the second of them is not at
\* the position in the full list that it has among the shown ones.
C6_Witness ==
    /\ Returned("formatSingleEvent")
    /\ HasFrames(call.event)
    /\ LET pos == ShownPositions
           shown == ShownFrames
       IN \E k \in 1..Len(shown) : \E l \in 1..Len(shown) :
              /\ k < l
              /\ shown[k].frame.m = shown[l].frame.m
              /\ pos[l] # l

\* The map the Additional Data section shows; empty when there is no section.
ShownData ==
    LET hits == {i \in 1..Len(output) : output[i].prim = "JSON.stringify"}
    IN IF hits = {} THEN <<>> ELSE output[CHOOSE i \in hits : TRUE].data

\* The keys of context, contexts and extra of the event.
EventMapKeys(event) ==
    Keys(Get(event, "context")) \cup Keys(Get(event, "contexts"))
        \cup Keys(Get(event, "extra"))

\* The value of key in the last of context, contexts, extra that has it.
LastOfEventMaps(event, key) ==
    IF key \in Keys(Get(event, "extra")) THEN Get(Get(event, "extra"), key)
    ELSE IF key \in Keys(Get(event, "contexts")) THEN Get(Get(event, "contexts"), key)
    ELSE Get(Get(event, "context"), key)

\* C9: the Additional Data shown hold every key of context, contexts and
\* extra, with the value of the last of the three that has the key.
C9_MergeOrder ==
    Returned("formatSingleEvent") =>
        \A key \in EventMapKeys(call.event) :
            /\ key \in DOMAIN ShownData
            /\ ShownData[key] = LastOfEventMaps(call.event, key)

\* C10: when context, contexts or extra is not empty, no key and no value of
\* the Additional Data shown comes from the vars of a stack frame.
C10_FrameVarsOnlyAsFallback ==
    (Returned("formatSingleEvent") /\ EventMapKeys(call.event) # {}) =>
        \A key \in DOMAIN ShownData :
            /\ key \in EventMapKeys(call.event)
            /\ ShownData[key] = LastOfEventMaps(call.event, key)

-----------------------------------------------------------------------------
(* The claims about empty collections.                                     *)

\* C7: an empty project collection is rendered without building a table or a
\* list, as the header followed by one fixed message.
C7_EmptyProjects ==
    (Returned("ProjectFormatter.formatData") /\ call.projects = <<>>) =>
        /\ Invoked(output) \cap {"createTable", "createList"} = {}
        /\ Len(output) = 2
        /\ output[1].prim = "createHeader"
        /\ output[2].prim = "raw"

\* The header of a list, as a string.
HeaderString(title) ==
    (IF formatType = "markdown" THEN "# " ELSE "") \o title \o "\n\n"

\* C8: in each output mode and detail level an empty issue list renders as
\* the header "Issues for Project: X" followed by "No issues found for this
\* project.", and an empty event list as the header "Events for <title>"
\* followed by "No events found for this issue.".
C8_EmptyIssuesAndEvents ==
    /\ (Returned("formatIssueList") /\ call.issues = <<>>) =>
           TextOf(output) = HeaderString("Issues for Project: " \o call.projectSlug)
                            \o "No issues found for this project.\n"
    /\ (Returned("formatEventList") /\ call.events = <<>>) =>
           TextOf(output) = HeaderString("Events for " \o call.issueTitle)
                            \o "No events found for this issue.\n"

\* An empty issue list has been rendered in plain mode and summary view.
C8_Witness ==
    /\ Returned("formatIssueList")
    /\ call.issues = <<>>
    /\ formatType = "plain"
    /\ view = "summary"
    /\ Len(output) = 2

-----------------------------------------------------------------------------
(* The claims about the Environment and User Information sections of       *)
(* formatSingleEvent.                                                      *)

\* The tokens of a text.
Tokens(text) == {text[j] : j \in 1..Len(text)}

\* The places in the output of the header of the section with this title.
SectionAt(title) ==
    {i \in 1..Len(output) :
        output[i].prim = "createHeader" /\ title \in Tokens(output[i].text)}

\* The tokens of the table or list that follows the header at place i; none
\* when no table and no list follows it.
SectionBody(i) ==
    IF i + 1 <= Len(output) /\ output[i + 1].prim \in {"createTable", "createList"}
    THEN Tokens(output[i + 1].text)
    ELSE {}

\* The places in event.tags of the tags with a whitelisted key.
WhitelistedTags(event) ==
    LET tags == Elems(Get(event, "tags"))
    IN {k \in 1..Len(tags) :
           Get(tags[k], "key") \in {Str("environment"), Str("level"), Str("release"),
                                    Str("server_name"), Str("runtime")}}

\* C11: the Environment header is in the output of formatSingleEvent only
\* when some tag of the event has a whitelisted key (with tags of other keys
\* only, nothing of the section is there), and the section lists no tag of
\* another key.
C11_EnvironmentSection ==
    Returned("formatSingleEvent") =>
        LET tags == Elems(Get(call.event, "tags"))
            white == WhitelistedTags(call.event)
        IN /\ SectionAt("Environment") # {} <=> white # {}
           /\ \A i \in SectionAt("Environment") :
                  \A k \in (1..Len(tags)) \ white :
                      Interp(Get(tags[k], "key")) \notin SectionBody(i)

\* The labels the User Information section has for the fields of the user.
UserLabel(key) ==
    CASE key = "id" -> "ID"
      [] key = "email" -> "Email"
      [] key = "username" -> "Username"
      [] key = "ip_address" -> "IP Address"

\* C12: the User Information header is in the output of formatSingleEvent
\* exactly when one of id, email, username, ip_address of the user is truthy,
\* and the section lists exactly the truthy ones of the four.
C12_UserSection ==
    Returned("formatSingleEvent") =>
        LET four == {"id", "email", "username", "ip_address"}
            present == {k \in four : Truthy(Get(Get(call.event, "user"), k))}
        IN /\ SectionAt("User Information") # {} <=> present # {}
           /\ \A i \in SectionAt("User Information") :
                  \A k \in four : UserLabel(k) \in SectionBody(i) <=> k \in present

-----------------------------------------------------------------------------
(* The claims about the primitives.                                        *)

\* The string of one table row: its cells joined by " | ".
RowString(cells) == Flatten(Join(cells, " | "))

\* The strings of the lines of rows, each ended by a line feed, in order;
\* wrap(r) is the line of the row string r.
RECURSIVE RowLines(_, _, _)
RowLines(rows, before, after) ==
    IF rows = <<>> THEN ""
    ELSE before \o RowString(Head(rows)) \o after \o "\n"
         \o RowLines(Tail(rows), before, after)

\* The groups of dashes of a separator row, one for each column, with a
\* pipe between two of them.
RECURSIVE DashGroups(_)
DashGroups(n) ==
    IF n = 0 THEN ""
    ELSE IF n = 1 THEN "----"
    ELSE "----|" \o DashGroups(n - 1)

\* C13: in plain mode createTable returns the header row as the first line
\* and one pipe-joined line for each data row, with no row of dashes; in
\* markdown mode the header row, one separator row with a group of dashes
\* for each column, and one line for each data row.
C13_TableRows ==
    Returned("createTable") =>
        TextOf(output) =
            IF formatType = "plain"
            THEN RowString(call.headers) \o "\n"
                 \o RowLines(call.rows, "", "") \o "\n"
            ELSE "| " \o RowString(call.headers) \o " |\n"
                 \o "|" \o DashGroups(Len(call.headers)) \o "|\n"
                 \o RowLines(call.rows, "| ", " |") \o "\n"

-----------------------------------------------------------------------------
(* The claims about single issues.                                         *)

\* C15: no renderer entry point throws, whichever of the optional fields of
\* its entities are absent, and in the string it returns no absent field
\* shows as the text "undefined".
C15_RenderersNeverThrow ==
    /\ pc # "throw"
    /\ pc = "return" =>
           \A i \in 1..Len(output) : "undefined" \notin Tokens(output[i].text)

\* The sum of the counts of a list of (timestamp, count) buckets.
RECURSIVE SumOfCounts(_)
SumOfCounts(buckets) ==
    IF buckets = <<>> THEN 0
    ELSE Elems(Head(buckets))[2].n + SumOfCounts(Tail(buckets))

\* The places in the output of the 24-hour event count line.
CountLines ==
    {i \in 1..Len(output) : "24-Hour Event Count" \in Tokens(output[i].text)}

\* The line of the 24-hour event count with this number.
CountLine(n) ==
    "\n" \o (IF formatType = "markdown" THEN "**24-Hour Event Count**"
             ELSE "24-Hour Event Count")
    \o ": " \o ToString(n) \o "\n"

\* C19: the summary of a single issue with a non-empty 24h bucket list has
\* one 24-hour event count line, with the sum of the counts of all buckets
\* (8 for [[1000,5],[2000,3]]); with the list absent or empty it has none.
C19_Total24h ==
    (Returned("formatIssueDetails") /\ view = "summary") =>
        LET buckets == Elems(Get(Get(call.issue, "stats"), "24h"))
        IN /\ IF buckets = <<>> THEN CountLines = {}
              ELSE /\ Cardinality(CountLines) = 1
                   /\ \A i \in CountLines :
                          TextOf(<<output[i]>>) = CountLine(SumOfCounts(buckets))
           /\ buckets = <<Bucket(1000, 5), Bucket(2000, 3)>> =>
                  \A i \in CountLines : TextOf(<<output[i]>>) = CountLine(8)

\* The summary of an issue with the buckets [[1000,5],[2000,3]] has been
\* rendered, with a count line.
C19_Witness ==
    /\ Returned("formatIssueDetails")
    /\ view = "summary"
    /\ Elems(Get(Get(call.issue, "stats"), "24h")) = <<Bucket(1000, 5), Bucket(2000, 3)>>
    /\ CountLines # {}

-----------------------------------------------------------------------------
(* The claims about the rendering of projects.                             *)

\* The string of a property of an object that is a string.
Field(obj, key) == Get(obj, key).u

\* The list item of the summary for one project.
SummaryItem(project) ==
    (IF formatType = "markdown" THEN "**" \o Field(project, "name") \o "**"
     ELSE Field(project, "name"))
    \o " (" \o Field(project, "slug") \o "): ID " \o Field(project, "id")

\* The list of the summary: one line "- item" for each project, in order,
\* and a blank line.
RECURSIVE SummaryList(_)
SummaryList(projects) ==
    IF projects = <<>> THEN "\n\n"
    ELSE "- " \o SummaryItem(Head(projects))
         \o (IF Len(projects) = 1 THEN "" ELSE "\n")
         \o SummaryList(Tail(projects))

\* C18: the summary of projects has one list item for each project, in input
\* order, of the form "<bold name> (<slug>): ID <id>", and then the line
\* "Total Projects: <number of projects>"; for the one project {id 1, name
\* Demo, slug demo} in markdown the item is "**Demo** (demo): ID 1" and the
\* total line "Total Projects: 1".
C18_ProjectSummary ==
    (Returned("ProjectFormatter.formatData") /\ view = "summary") =>
        /\ Len(output) = 3
        /\ output[2].prim = "createList"
        /\ TextOf(<<output[2]>>) = SummaryList(call.projects)
        /\ TextOf(<<output[3]>>) = "Total Projects: " \o ToString(Len(call.projects))
        /\ (Len(call.projects) = 1 /\ Field(call.projects[1], "name") = "Demo"
            /\ formatType = "markdown") =>
               /\ TextOf(<<output[2]>>) = "- **Demo** (demo): ID 1\n\n"
               /\ TextOf(<<output[3]>>) = "Total Projects: 1"

\* The summary of the project Demo and another one has been rendered in
\* markdown.
C18_Witness ==
    /\ Returned("ProjectFormatter.formatData")
    /\ view = "summary"
    /\ formatType = "markdown"
    /\ Len(call.projects) = 2
    /\ Field(call.projects[1], "name") = "Demo"
    /\ call.projects[2] # call.projects[1]
    /\ Len(output) = 3

\* The strings of a list of strings joined by ", ".
RECURSIVE CommaJoined(_)
CommaJoined(items) ==
    IF items = <<>> THEN ""
    ELSE IF Len(items) = 1 THEN Head(items).u
    ELSE Head(items).u \o ", " \o CommaJoined(Tail(items))

\* What is shown for a list of names: "None" for an absent or empty list.
ListOrNone(project, key) ==
    IF Elems(Get(project, key)) = <<>> THEN "None"
    ELSE CommaJoined(Elems(Get(project, key)))

\* The seven fields shown for a project, in order.
SevenFields(project) ==
    <<Field(project, "id"), Field(project, "name"), Field(project, "slug"),
      IF Get(project, "platform") = Undefined THEN "N/A" ELSE Field(project, "platform"),
      CommaJoined([i \in 1..Len(Elems(Get(project, "teams"))) |->
                      Get(Elems(Get(project, "teams"))[i], "name")]),
      ListOrNone(project, "environments"),
      ListOrNone(project, "features")>>

SevenLabels ==
    <<"ID", "Name", "Slug", "Platform", "Teams", "Environments", "Features">>

\* The labelled lines of a project in plain mode.
PlainFields(project) ==
    LET shown == SevenFields(project)
        line(k) == SevenLabels[k] \o ": " \o shown[k] \o "\n"
    IN line(1) \o line(2) \o line(3) \o line(4) \o line(5) \o line(6) \o line(7)
       \o "\n"

\* The table row of a project in markdown mode.
MarkdownFields(project) ==
    LET shown == SevenFields(project)
    IN "| " \o shown[1] \o " | " \o shown[2] \o " | " \o shown[3] \o " | "
       \o shown[4] \o " | " \o shown[5] \o " | " \o shown[6] \o " | " \o shown[7]
       \o " |\n"

RECURSIVE MarkdownRows(_)
MarkdownRows(projects) ==
    IF projects = <<>> THEN ""
    ELSE MarkdownFields(Head(projects)) \o MarkdownRows(Tail(projects))

\* C20: the detailed rendering shows the seven fields of every project in
\* both modes, as a table row in markdown mode and as labelled lines in plain
\* mode, with "N/A" for an absent platform and "None" for absent or empty
\* environments and for absent or empty features.
C20_SevenFields ==
    (Returned("ProjectFormatter.formatData") /\ view = "detailed") =>
        IF formatType = "markdown"
        THEN TextOf(<<output[2]>>) =
                 "| ID | Name | Slug | Platform | Teams | Environments | Features |\n"
                 \o "|----|----|----|----|----|----|----|\n"
                 \o MarkdownRows(call.projects) \o "\n"
        ELSE /\ Len(output) = Len(call.projects) + 3
             /\ \A i \in 1..Len(call.projects) :
                    TextOf(<<output[i + 1]>>) = PlainFields(call.projects[i])

\* A project without platform, environments and features and a project with
\* empty environments and features have been rendered in detail, plain.
C20_Witness ==
    /\ Returned("ProjectFormatter.formatData")
    /\ view = "detailed"
    /\ formatType = "plain"
    /\ Len(call.projects) = 2
    /\ DOMAIN call.projects[1].m = {"id", "name", "slug", "teams"}
    /\ Get(call.projects[2], "environments") = Arr(<<>>)
    /\ Get(call.projects[2], "features") = Arr(<<>>)
    /\ Len(output) = 5

-----------------------------------------------------------------------------
(* The tool handlers (src/src/index.ts) and SentryApiClient                *)
(* (src/unnamed/part_000).  The strings a handler takes apart or puts into *)
(* an endpoint are sequences of their characters.                          *)

W_http == <<"h", "t", "t", "p">>
W_organizations ==
    <<"o", "r", "g", "a", "n", "i", "z", "a", "t", "i", "o", "n", "s">>
W_issues == <<"i", "s", "s", "u", "e", "s">>
W_events == <<"e", "v", "e", "n", "t", "s">>
W_projects == <<"p", "r", "o", "j", "e", "c", "t", "s">>
W_shortids == <<"s", "h", "o", "r", "t", "i", "d", "s">>
W_full == <<"?", "f", "u", "l", "l", "=", "t", "r", "u", "e">>

\* String.prototype.startsWith
StartsWith(s, prefix) ==
    Len(s) >= Len(prefix) /\ SubSeq(s, 1, Len(prefix)) = prefix

\* The first place of s with a character of the set; Len(s) + 1 when none.
IndexOfAny(s, set) ==
    LET hits == {i \in 1..Len(s) : s[i] \in set}
    IN IF hits = {} THEN Len(s) + 1 ELSE CHOOSE i \in hits : \A j \in hits : i <= j

\* String.prototype.split with a one-character separator.
RECURSIVE Split(_, _)
Split(s, sep) ==
    LET i == IndexOfAny(s, {sep})
    IN IF i > Len(s) THEN <<s>>
       ELSE <<SubSeq(s, 1, i - 1)>> \o Split(SubSeq(s, i + 1, Len(s)), sep)

\* The string without its leading characters of the set.
RECURSIVE SkipAll(_, _)
SkipAll(s, set) ==
    IF s # <<>> /\ Head(s) \in set THEN SkipAll(Tail(s), set) ELSE s

\* new URL(s) for the strings of this model: their characters are letters,
\* digits and . - : / ? = # only, and a scheme, when there is one, is http or
\* https.  Without a scheme or without a host the constructor throws; in a
\* special scheme any number of slashes may follow the colon, the host ends
\* at the first of / ? #, and the pathname at the first of ? #.
ParseURL(s) ==
    LET colon == IndexOfAny(s, {":"})
        scheme == SubSeq(s, 1, colon - 1)
        afterSlashes == SkipAll(SubSeq(s, colon + 1, Len(s)), {"/"})
        hostEnd == IndexOfAny(afterSlashes, {"/", "?", "#"})
        afterHost == SubSeq(afterSlashes, hostEnd, Len(afterSlashes))
        path == SubSeq(afterHost, 1, IndexOfAny(afterHost, {"?", "#"}) - 1)
    IN IF colon > Len(s) THEN [ok |-> FALSE]
       ELSE CASE scheme \in {W_http, W_http \o <<"s">>} ->
                     IF hostEnd = 1 THEN [ok |-> FALSE]
                     ELSE [ok |-> TRUE,
                           pathname |-> IF path = <<>> THEN <<"/">> ELSE path]

\* url.pathname.split("/").filter((part) => part)
NonEmpty(part) == part # <<>>

PathParts(pathname) == SelectSeq(Split(pathname, "/"), NonEmpty)

\* pathParts.length >= n + 1 && pathParts[n] === word, with the index n of
\* the code, which counts from 0.
PartIs(pathParts, n, word) == Len(pathParts) >= n + 1 /\ pathParts[n + 1] = word

\* The endpoints of SentryApiClient.
Slash == <<"/">>

getProjects_Endpoint(organizationSlug) ==
    Slash \o W_organizations \o Slash \o organizationSlug \o Slash \o W_projects \o Slash

getProjectIssues_Endpoint(organizationSlug, projectSlug) ==
    Slash \o W_projects \o Slash \o organizationSlug \o Slash \o projectSlug
    \o Slash \o W_issues \o Slash

getIssue_Endpoint(organizationSlug, issueId) ==
    Slash \o W_organizations \o Slash \o organizationSlug \o Slash \o W_issues
    \o Slash \o issueId \o Slash

getIssueEvents_Endpoint(organizationSlug, issueId, full) ==
    Slash \o W_issues \o Slash \o issueId \o Slash \o W_events \o Slash
    \o (IF full THEN W_full ELSE <<>>)

resolveShortId_Endpoint(organizationSlug, shortId) ==
    Slash \o W_organizations \o Slash \o organizationSlug \o Slash \o W_shortids
    \o Slash \o shortId \o Slash

\* The event asked of the organization, whatever the project.
getIssueEvent_Endpoint_OfOrganization(organizationSlug, projectSlug, eventId) ==
    Slash \o W_organizations \o Slash \o organizationSlug \o Slash \o W_events
    \o Slash \o eventId \o Slash

getIssueEvent_Endpoint(organizationSlug, projectSlug, eventId) ==
    Slash \o W_projects \o Slash \o organizationSlug \o Slash \o projectSlug
    \o Slash \o W_events \o Slash \o eventId \o Slash

\* The characters a template literal puts for a value.
CharsOf(v) ==
    CASE v.t = "chars" -> v.c
      [] v.t = "undefined" ->
             <<"u", "n", "d", "e", "f", "i", "n", "e", "d">>
      [] v.t = "null" -> <<"n", "u", "l", "l">>

-----------------------------------------------------------------------------
(* ErrorHandler (src/src/utils/errorHandler.ts) and the responses.         *)

\* An Error object: its name and its message.
Error(name, message) == [name |-> name, message |-> message]

\* The Error a Throw carries.
ErrorOf(chunks) == Error(chunks[1].text[1], chunks[1].text[3])

\* handleApiError with a text that does not name the operation.
handleApiError_NoContext(error, context) ==
    [content |-> <<[type |-> "text", text |-> "Error: " \o error.message]>>,
     isError |-> TRUE]

handleApiError(error, context) ==
    [content |-> <<[type |-> "text",
                    text |-> "Error in " \o context \o ": " \o error.message]>>,
     isError |-> TRUE]

\* The response of a handler that returns text.
TextResponse(text) == [content |-> <<[type |-> "text", text |-> text]>>]

\* JSON.stringify(value, null, 2): the text is held as the value it encodes.
JSONText(value) == [json |-> value, indent |-> 2]

-----------------------------------------------------------------------------
(* The handlers, up to their first await.                                  *)

\* get_sentry_issue (index.ts:173-184): the issue id the fetch is given.
get_sentry_issue_IssueId(issue_id_or_url) ==
    IF StartsWith(issue_id_or_url, W_http)
    THEN LET pathParts == PathParts(ParseURL(issue_id_or_url).pathname)
         IN IF Len(pathParts) >= 4 /\ PartIs(pathParts, 2, W_issues)
            THEN pathParts[4]
            ELSE issue_id_or_url
    ELSE issue_id_or_url

\* get_sentry_event with its three arguments left as they are given.
get_sentry_event_Locals_KeepArguments(issue_id_or_url, event_id, organization_slug) ==
    [issueId |-> issue_id_or_url, organizationSlug |-> organization_slug,
     extractedEventId |-> event_id]

\* get_sentry_event (index.ts:481-517): issueId, organizationSlug and
\* extractedEventId when the handler calls getIssueEvent.  A URL that does
\* not parse leaves them as they are (the catch of line 513).
get_sentry_event_Locals(issue_id_or_url, event_id, organization_slug) ==
    LET given == [issueId |-> issue_id_or_url, organizationSlug |-> organization_slug,
                  extractedEventId |-> event_id]
    IN IF ~StartsWith(issue_id_or_url, W_http) THEN given
       ELSE IF ~ParseURL(issue_id_or_url).ok THEN given
       ELSE LET pathParts == PathParts(ParseURL(issue_id_or_url).pathname)
            IN IF ~(Len(pathParts) >= 2 /\ PartIs(pathParts, 0, W_organizations))
               THEN given
               ELSE [organizationSlug |-> pathParts[2],
                     issueId |->
                         IF Len(pathParts) >= 4 /\ PartIs(pathParts, 2, W_issues)
                         THEN pathParts[4] ELSE issue_id_or_url,
                     extractedEventId |->
                         IF Len(pathParts) >= 6 /\ PartIs(pathParts, 4, W_events)
                         THEN pathParts[6] ELSE event_id]

\* SentryApiClient.get(endpoint): the request is sent and the caller waits.
Await(endpoint, newLocals) ==
    /\ requests' = Append(requests, endpoint)
    /\ locals' = newLocals
    /\ pc' = "await"
    /\ UNCHANGED <<events, extract_fields, result, formatType, view, call, output,
                   response>>

\* A handler that sends its last request once more when something threw
\* after it, and returns the error only when the second attempt throws too.
Catch_Retry(error) ==
    IF requests # <<>> /\ Len(requests) < 3
    THEN /\ requests' = Append(requests, requests[Len(requests)])
         /\ pc' = "await"
         /\ UNCHANGED <<events, extract_fields, result, formatType, view, call,
                        output, locals, response>>
    ELSE /\ locals' = Assign(locals, [error |-> error])
         /\ response' = handleApiError(error, call.tool)
         /\ pc' = "done"
         /\ UNCHANGED <<events, extract_fields, result, formatType, view, call,
                        output, requests>>

\* The catch clause of a handler: return ErrorHandler.handleApiError(error, tool).
Catch(error) ==
    /\ locals' = Assign(locals, [error |-> error])
    /\ response' = handleApiError(error, call.tool)
    /\ pc' = "done"
    /\ UNCHANGED <<events, extract_fields, result, formatType, view, call, output,
                   requests>>

ListProjects ==
    /\ pc = "call"
    /\ call.tool = "list_projects"
    /\ Await(getProjects_Endpoint(call.organization_slug), locals)

ListProjectIssues ==
    /\ pc = "call"
    /\ call.tool = "list_project_issues"
    /\ Await(getProjectIssues_Endpoint(call.organization_slug, call.project_slug),
             locals)

GetSentryIssue ==
    /\ pc = "call"
    /\ call.tool = "get_sentry_issue"
    /\ IF StartsWith(call.issue_id_or_url, W_http)
          /\ ~ParseURL(call.issue_id_or_url).ok
       THEN Catch(Error("TypeError", "Invalid URL"))
       ELSE Await(getIssue_Endpoint(call.organization_slug,
                                    get_sentry_issue_IssueId(call.issue_id_or_url)),
                  [issueId |-> get_sentry_issue_IssueId(call.issue_id_or_url)])

ListIssueEvents ==
    /\ pc = "call"
    /\ call.tool = "list_issue_events"
    /\ Await(getIssueEvents_Endpoint(call.organization_slug, call.issue_id, FALSE),
             locals)

ResolveShortId ==
    /\ pc = "call"
    /\ call.tool = "resolve_short_id"
    /\ Await(resolveShortId_Endpoint(call.organization_slug, call.short_id), locals)

ExtractIssueContextData ==
    /\ pc = "call"
    /\ call.tool = "extract_issue_context_data"
    /\ Await(getIssueEvents_Endpoint(call.organization_slug, call.issue_id, TRUE),
             locals)

\* get_sentry_event up to the first get of SentryApiClient.getIssueEvent.
GetSentryEvent ==
    /\ pc = "call"
    /\ call.tool = "get_sentry_event"
    /\ LET vals == get_sentry_event_Locals(call.issue_id_or_url, call.event_id,
                                           call.organization_slug)
       IN Await(getIssue_Endpoint(vals.organizationSlug, vals.issueId), vals)

-----------------------------------------------------------------------------
(* The handlers after an await.                                            *)

\* What SentryApiClient.get throws: fetch rejects, the status is not ok, or
\* the body is no JSON.
UpstreamErrors ==
    {Error("FetchError", "request to https://s.io/api/0 failed, reason: ECONNREFUSED"),
     Error("Error", "API request failed: 404 Not Found - The requested resource does not exist"),
     Error("FetchError", "invalid json response body, reason: Unexpected end of JSON input")}

\* resolve_short_id: the text of the handler (index.ts:296-312).
resolve_short_id_Output(data) ==
    LET group == Get(data, "group")
        line(label, key) ==
            IF isMarkdown
            THEN <<"- **", label, "**: ", Interp(Get(group, key)), "\n">>
            ELSE <<label, ": ", Interp(Get(group, key)), "\n">>
    IN IF Nullish(group) THEN CannotRead(group, "title")
       ELSE <<Raw((IF isMarkdown THEN <<"# ">> ELSE <<>>)
                  \o <<"Issue Details: ", Interp(Get(data, "shortId")), "\n\n">>)>>
            \o (IF isMarkdown THEN <<Raw(<<"## Issue Information\n\n">>)>> ELSE <<>>)
            \o <<Raw(line("Title", "title")), Raw(line("Status", "status")),
                 Raw(line("Level", "level")), Raw(line("Event Count", "count")),
                 Raw(line("User Count", "userCount")),
                 Raw(IF isMarkdown
                     THEN <<"- **Permalink**: [", Interp(Get(group, "permalink")), "](",
                            Interp(Get(group, "permalink")), ")\n">>
                     ELSE <<"Permalink: ", Interp(Get(group, "permalink")), "\n">>)>>

\* What a handler that renders does with the value its fetch resolved to:
\* the chunks of its text, or the exception thrown on the way.
Transform(payload) ==
    CASE call.tool = "list_projects" ->
             IF Nullish(payload)
             THEN (IF isDetailed /\ ~isMarkdown
                   THEN Throw("TypeError", "projects is not iterable")
                   ELSE CannotRead(payload, "map"))
             ELSE ProjectFormatter_formatData(Elems(payload))
      [] call.tool = "list_project_issues" ->
             IF Nullish(payload) THEN CannotRead(payload, "length")
             ELSE formatIssueList(Elems(payload), Flatten(call.project_slug))
      [] call.tool = "get_sentry_issue" ->
             IF Nullish(payload) THEN CannotRead(payload, "title")
             ELSE formatIssueDetails(payload)
      [] call.tool = "list_issue_events" ->
             IF Nullish(payload) THEN CannotRead(payload, "length")
             ELSE formatEventList(Elems(payload), "Issue " \o Flatten(call.issue_id))
      [] call.tool = "resolve_short_id" ->
             IF Nullish(payload) THEN CannotRead(payload, "shortId")
             ELSE resolve_short_id_Output(payload)
      [] call.tool = "get_sentry_event" ->
             IF Nullish(payload) THEN CannotRead(payload, "title")
             ELSE formatSingleEvent(payload, Flatten(locals.extractedEventId))

\* The values the fetch of a tool resolves to.
Payloads ==
    CASE call.tool = "list_projects" ->
             {Null} \cup {Arr(s) : s \in SeqsUpTo(ProjectUniverse, 1)}
      [] call.tool = "list_project_issues" ->
             {Null} \cup {Arr(s) : s \in SeqsUpTo(IssueUniverse, 1)}
      [] call.tool = "get_sentry_issue" ->
             {Null} \cup {IssueWith("1", WithOptional(<<>>, "project", project)) :
                             project \in ProjectRefs}
      [] call.tool = "list_issue_events" ->
             {Null} \cup {Arr(s) : s \in SeqsUpTo(ListEventUniverse, 1)}
      [] call.tool = "resolve_short_id" ->
             {Null, Obj([shortId |-> Str("WEB-1")]),
              Obj([shortId |-> Str("WEB-1"), group |-> IssueWith("1", <<>>)])}
      [] call.tool = "extract_issue_context_data" ->
             {Null, Arr(<<>>),
              Arr(<<MakeEvent([defs |-> {"extra"}, hasId |-> TRUE,
                               ctxEventId |-> FALSE], 1)>>)}
      [] call.tool = "get_sentry_event" ->
             {Null, EventWith(<<>>),
              EventWith([tags |-> Arr(<<Obj([key |-> Str("level"),
                                             value |-> Str("error")])>>)])}

\* The issues the first get of getIssueEvent resolves to.
IssuePayloads ==
    {Null, Obj([id |-> Str("7")]),
     Obj([id |-> Str("7"), project |-> Obj([slug |-> Chars(<<"w", "e", "b">>)])]),
     Obj([id |-> Str("7"), project |-> Obj([slug |-> Chars(<<"a", "p", "i">>)])])}

\* The handler returns its text.
Respond(chunks, text) ==
    /\ output' = chunks
    /\ response' = TextResponse(text)
    /\ pc' = "done"

\* SentryApiClient.get throws and the catch clause of the handler returns.
GetFails ==
    /\ pc = "await"
    /\ \E error \in UpstreamErrors : Catch(error)

\* SentryApiClient.getIssueEvent after its getIssue resolved (part_000:
\* 146-152): the second get, for the event of the project of the issue.
GetIssueEventContinues ==
    /\ pc = "await"
    /\ call.tool = "get_sentry_event"
    /\ Len(requests) = 1
    /\ \E issue \in IssuePayloads :
           IF Nullish(issue) THEN Catch(ErrorOf(CannotRead(issue, "project")))
           ELSE IF Nullish(Get(issue, "project"))
           THEN Catch(ErrorOf(CannotRead(Get(issue, "project"), "slug")))
           ELSE Await(getIssueEvent_Endpoint(locals.organizationSlug,
                                             CharsOf(Get(Get(issue, "project"), "slug")),
                                             locals.extractedEventId),
                      Assign(locals, [issue |-> issue]))

\* A handler that renders, after its fetch resolved: it formats the value
\* and returns the text, or catches what the formatter threw.
RenderContinues ==
    /\ pc = "await"
    /\ call.tool # "extract_issue_context_data"
    /\ call.tool = "get_sentry_event" => Len(requests) = 2
    /\ \E payload \in Payloads :
           LET chunks == Transform(payload)
           IN IF Throws(chunks) THEN Catch(ErrorOf(chunks))
              ELSE /\ Respond(chunks, TextOf(chunks))
                   /\ UNCHANGED <<events, extract_fields, result, formatType, view,
                                  call, locals, requests>>

\* extract_issue_context_data after getIssueEvents resolved (index.ts:
\* 369-432).
ExtractContinues ==
    /\ pc = "await"
    /\ call.tool = "extract_issue_context_data"
    /\ \E payload \in Payloads :
           IF Nullish(payload) THEN Catch(ErrorOf(CannotRead(payload, "forEach")))
           ELSE /\ events' = Elems(payload)
                /\ result' = ExtractResult(Elems(payload), call.extract_fields)
                /\ Respond(output, JSONText(result'))
                /\ UNCHANGED <<extract_fields, formatType, view, call, locals,
                               requests>>

-----------------------------------------------------------------------------
(* The invocations of the tools.                                           *)

Orgs == {<<"a", "c", "m", "e">>, <<"o", "p", "s">>}

Origins ==
    {W_http \o <<"s", ":", "/", "/", "s", ".", "i", "o">>,
     W_http \o <<":", "/", "/", "s", ".", "i", "o">>}

\* What follows the path in a URL: nothing, a slash, a slash and a query.
Tails == {<<>>, Slash, <<"/", "?", "q", "=", "1">>}

IssueUrl(origin, org, issue, tail) ==
    origin \o Slash \o W_organizations \o Slash \o org \o Slash \o W_issues
    \o Slash \o issue \o tail

EventUrl(origin, org, issue, event, tail) ==
    IssueUrl(origin, org, issue, <<>>) \o Slash \o W_events \o Slash \o event \o tail

UrlOrg == <<"a", "c", "m", "e">>
UrlIssue == <<"7">>
UrlEvent == <<"e", "9">>

\* The values of issue_id_or_url: a bare id, the URLs of an issue and of an
\* event, the URL of an organization, the URL of an issue on the host of its
\* organization, and a string that begins with http and is no URL.
IssueIdsOrUrls ==
    {<<"1", "2">>}
    \cup {IssueUrl(origin, UrlOrg, UrlIssue, tail) : origin \in Origins, tail \in Tails}
    \cup {EventUrl(origin, UrlOrg, UrlIssue, UrlEvent, tail) :
             origin \in Origins, tail \in Tails}
    \cup {W_http \o <<"s", ":", "/", "/", "s", ".", "i", "o">>
          \o Slash \o W_organizations \o Slash \o UrlOrg,
          W_http \o <<"s", ":", "/", "/", "a", ".", "s", ".", "i", "o">>
          \o Slash \o W_issues \o Slash \o UrlIssue \o Slash,
          W_http \o <<"-", "1", "2">>}

ToolCalls ==
    [tool : {"list_projects"}, organization_slug : Orgs]
    \cup [tool : {"list_project_issues"}, organization_slug : Orgs,
          project_slug : {<<"w", "e", "b">>}]
    \cup [tool : {"get_sentry_issue"}, organization_slug : Orgs,
          issue_id_or_url : IssueIdsOrUrls]
    \cup [tool : {"list_issue_events"}, organization_slug : Orgs,
          issue_id : {<<"1", "2">>}]
    \cup [tool : {"resolve_short_id"}, organization_slug : Orgs,
          short_id : {<<"W", "E", "B", "-", "1">>}]
    \cup [tool : {"extract_issue_context_data"}, organization_slug : Orgs,
          issue_id : {<<"1", "2">>},
          extract_fields : SeqsUpTo(FieldNames, 1)]
    \cup [tool : {"get_sentry_event"}, organization_slug : Orgs,
          issue_id_or_url : IssueIdsOrUrls,
          event_id : {<<"a", "b">>, UrlEvent}]

\* A tool is invoked with its arguments; formatType and view are the format
\* and view arguments, which the handler constructs its formatter with.
InitTools ==
    /\ pc = "call"
    /\ call \in ToolCalls
    /\ formatType \in {"markdown", "plain"}
    /\ view \in {"summary", "detailed"}
    /\ locals = <<>>
    /\ requests = <<>>
    /\ response = Unused
    /\ output = Unused
    /\ events = Unused
    /\ extract_fields = Unused
    /\ result = Unused

NextTools ==
    \/ ListProjects
    \/ ListProjectIssues
    \/ GetSentryIssue
    \/ ListIssueEvents
    \/ ResolveShortId
    \/ ExtractIssueContextData
    \/ GetSentryEvent
    \/ GetFails
    \/ GetIssueEventContinues
    \/ RenderContinues
    \/ ExtractContinues

SpecTools == InitTools /\ [][NextTools]_vars

-----------------------------------------------------------------------------
(* The claims about the tool handlers.                                     *)

\* The handler has returned its response.
Done(tool) == pc = "done" /\ call.tool = tool

\* The handler has returned after something it called threw.
Failed == pc = "done" /\ "error" \in DOMAIN locals

\* C14: whatever the fetch of a tool or the transform after it throws, the
\* handler returns: its response has the error flag and the one text "Error
\* in <name of the tool>: <message of what was thrown>"; and a handler in
\* which nothing threw returns a response without the flag.
C14_FailuresBecomeResponses ==
    /\ pc \in {"call", "await", "done"}
    /\ Failed =>
           response = [content |->
                           <<[type |-> "text",
                              text |-> "Error in " \o call.tool \o ": "
                                       \o locals.error.message]>>,
                       isError |-> TRUE]
    /\ (pc = "done" /\ ~Failed) => "isError" \notin DOMAIN response

\* get_sentry_issue has returned after its formatter threw on the issue it
\* fetched.
C14_Witness ==
    /\ Done("get_sentry_issue")
    /\ Failed
    /\ locals.error.name = "TypeError"
    /\ Len(requests) = 1
    /\ response.isError

\* The request of getIssue for this organization and issue has been sent
\* first and, when a second one has been sent, it is for this event of this
\* organization.
FetchUses(org, issue, event) ==
    /\ pc # "call" => Len(requests) >= 1
    /\ Len(requests) >= 1 => requests[1] = getIssue_Endpoint(org, issue)
    /\ Len(requests) >= 2 =>
           \E slug \in {<<"w", "e", "b">>, <<"a", "p", "i">>} :
               requests[2] = getIssueEvent_Endpoint(org, slug, event)

\* C16: get_sentry_event fetches with the organization, issue and event of a
\* URL of the form /organizations/{org}/issues/{issue}/events/{event}, with
\* the event_id argument for a URL without the events segment, and with its
\* three arguments for a bare id.
C16_EventUrl ==
    call.tool = "get_sentry_event" =>
        /\ \A origin \in Origins : \A tail \in Tails :
               /\ call.issue_id_or_url
                      = EventUrl(origin, UrlOrg, UrlIssue, UrlEvent, tail)
                  => FetchUses(UrlOrg, UrlIssue, UrlEvent)
               /\ call.issue_id_or_url = IssueUrl(origin, UrlOrg, UrlIssue, tail)
                  => FetchUses(UrlOrg, UrlIssue, call.event_id)
        /\ ~StartsWith(call.issue_id_or_url, W_http)
           => FetchUses(call.organization_slug, call.issue_id_or_url, call.event_id)

\* get_sentry_event has sent both requests for the URL of an event whose
\* organization and event are not the ones of the arguments.
C16_Witness ==
    /\ call.tool = "get_sentry_event"
    /\ \E origin \in Origins : \E tail \in Tails :
           call.issue_id_or_url = EventUrl(origin, UrlOrg, UrlIssue, UrlEvent, tail)
    /\ call.organization_slug # UrlOrg
    /\ call.event_id # UrlEvent
    /\ Len(requests) = 2

\* C17: for the URL of an issue or of an event, get_sentry_issue fetches the
\* issue of the URL in the organization of the URL; and for no URL is the
\* request made with the whole URL as the issue id.
C17_IssueUrl ==
    (call.tool = "get_sentry_issue" /\ pc # "call") =>
        /\ \A origin \in Origins : \A tail \in Tails :
               call.issue_id_or_url
                   \in {IssueUrl(origin, UrlOrg, UrlIssue, tail),
                        EventUrl(origin, UrlOrg, UrlIssue, UrlEvent, tail)}
               => requests = <<getIssue_Endpoint(UrlOrg, UrlIssue)>>
        /\ StartsWith(call.issue_id_or_url, W_http) =>
               \A i \in 1..Len(requests) :
                   requests[i] # getIssue_Endpoint(call.organization_slug,
                                                   call.issue_id_or_url)

-----------------------------------------------------------------------------
(* Concurrent invocations.  The server starts a handler for each request   *)
(* it reads; a handler runs up to its await and is resumed when its fetch  *)
(* has settled, so the invocations in flight interleave at their awaits    *)
(* and nowhere else.  In this specification pc, call, events and response  *)
(* hold one value for each invocation: call[i] the arguments, events[i]    *)
(* what the fetch of invocation i settles to.  formatType and view are the *)
(* fields of the formatter whose method runs, the one constructed last.    *)
(* The invocations are run twice on the same fetched data: one after the   *)
(* other first, and result keeps the responses of that run; then again, in *)
(* any interleaving.                                                       *)

MaxInvocations == 2

Invocations == 1..MaxInvocations

ConcurrentCalls ==
    [tool : {"list_projects"}, organization_slug : {UrlOrg},
     format : {"markdown", "plain"}, view : {"summary", "detailed"}]
    \cup [tool : {"list_issue_events"}, organization_slug : {UrlOrg},
          issue_id : {UrlIssue}, format : {"markdown", "plain"}, view : {"detailed"}]
    \cup [tool : {"extract_issue_context_data"}, organization_slug : {UrlOrg},
          issue_id : {UrlIssue}, extract_fields : {<<"roomId">>}]

\* What the promise of a get settles to.
Resolved(value) == [ok |-> TRUE, value |-> value]
Rejected(error) == [ok |-> FALSE, error |-> error]

Settlements(c) ==
    CASE c.tool = "list_projects" ->
             {Rejected(Error("Error", "API request failed: 403 Forbidden - denied")),
              Resolved(Arr(<<Obj([id |-> Str("2"), name |-> Str("Api"),
                                  slug |-> Str("api"), platform |-> Str("node"),
                                  teams |-> Arr(<<Obj([name |-> Str("core")])>>)])>>))}
      [] c.tool = "list_issue_events" ->
             {Resolved(Arr(<<Obj([id |-> Str("e1"), dateCreated |-> Str("2024-01-01"),
                                  title |-> Str("Boom")])>>))}
      [] c.tool = "extract_issue_context_data" ->
             {Resolved(Null),
              Resolved(Arr(<<MakeEvent([defs |-> {"extra"}, hasId |-> TRUE,
                                        ctxEventId |-> FALSE], 1)>>))}

\* The endpoint of the one get of a handler.
EndpointOf(c) ==
    CASE c.tool = "list_projects" -> getProjects_Endpoint(c.organization_slug)
      [] c.tool = "list_issue_events" ->
             getIssueEvents_Endpoint(c.organization_slug, c.issue_id, FALSE)
      [] c.tool = "extract_issue_context_data" ->
             getIssueEvents_Endpoint(c.organization_slug, c.issue_id, TRUE)

\* The invocations are being run one after the other.
Alone == result = Unused

\* The requests of the invocations that construct a formatter.
FormatterCalls == SelectSeq(requests, LAMBDA r : "format" \in DOMAIN call[r.by])

\* One formatter for the whole server, configured by each handler when it
\* is invoked: the formatter has the options of the invocation that came last.
FormatterOptions_LastInvoked(i) ==
    [format |-> call[FormatterCalls[Len(FormatterCalls)].by].format,
     view |-> call[FormatterCalls[Len(FormatterCalls)].by].view]

\* new ProjectFormatter({ format, view }), new IssueFormatter({ format, view })
\* (index.ts:66, 243): the options are the arguments of the invocation.
FormatterOptions(i) == [format |-> call[i].format, view |-> call[i].view]

\* A handler that renders, from its formatter call to its return: the text
\* response, or the response of its catch clause.
Rendered(c, fetched) ==
    LET chunks ==
            CASE c.tool = "list_projects" ->
                     ProjectFormatter_formatData(Elems(fetched))
              [] c.tool = "list_issue_events" ->
                     formatEventList(Elems(fetched), "Issue " \o Flatten(c.issue_id))
    IN IF Throws(chunks) THEN handleApiError(ErrorOf(chunks), c.tool)
       ELSE TextResponse(TextOf(chunks))

\* extract_issue_context_data from the resolution of its fetch to its return.
Extracted(c, fetched) ==
    IF Nullish(fetched)
    THEN handleApiError(ErrorOf(CannotRead(fetched, "forEach")), c.tool)
    ELSE TextResponse(JSONText(ExtractResult(Elems(fetched), c.extract_fields)))

InitConcurrent ==
    /\ call \in [Invocations -> ConcurrentCalls]
    /\ events \in [Invocations -> UNION {Settlements(c) : c \in ConcurrentCalls}]
    /\ \A i \in Invocations : events[i] \in Settlements(call[i])
    /\ pc = [i \in Invocations |-> "call"]
    /\ response = [i \in Invocations |-> Unused]
    /\ requests = <<>>
    /\ result = Unused
    /\ formatType = Unused
    /\ view = Unused
    /\ extract_fields = Unused
    /\ output = Unused
    /\ locals = Unused

\* A handler runs from one await to the next without interruption: no
\* other handler runs while one is between the construction of its
\* formatter and its return.
NoneRuns == \A j \in Invocations : pc[j] # "format"

\* The handler of invocation i runs up to its await.  In the first run it
\* starts when the invocations before it have returned.
Invoke(i) ==
    /\ NoneRuns
    /\ pc[i] = "call"
    /\ Alone => \A j \in Invocations : j < i => pc[j] = "done"
    /\ requests' = Append(requests, [by |-> i, endpoint |-> EndpointOf(call[i])])
    /\ pc' = [pc EXCEPT ![i] = "await"]
    /\ UNCHANGED <<events, extract_fields, result, formatType, view, call, output,
                   locals, response>>

\* The get of invocation i throws; its catch clause returns.
FetchRejects(i) ==
    /\ NoneRuns
    /\ pc[i] = "await"
    /\ ~events[i].ok
    /\ response' = [response EXCEPT
                       ![i] = handleApiError(events[i].error, call[i].tool)]
    /\ pc' = [pc EXCEPT ![i] = "done"]
    /\ UNCHANGED <<events, extract_fields, result, formatType, view, call, output,
                   locals, requests>>

\* The get of a rendering invocation resolves and the handler constructs its
\* formatter (baseFormatter.ts:13-16).
ConstructFormatter(i) ==
    /\ NoneRuns
    /\ pc[i] = "await"
    /\ events[i].ok
    /\ call[i].tool # "extract_issue_context_data"
    /\ formatType' = FormatterOptions(i).format
    /\ view' = FormatterOptions(i).view
    /\ pc' = [pc EXCEPT ![i] = "format"]
    /\ UNCHANGED <<events, extract_fields, result, call, output, locals, requests,
                   response>>

\* The handler calls its formatter and returns.
RenderReturns(i) ==
    /\ pc[i] = "format"
    /\ response' = [response EXCEPT ![i] = Rendered(call[i], events[i].value)]
    /\ pc' = [pc EXCEPT ![i] = "done"]
    /\ UNCHANGED <<events, extract_fields, result, formatType, view, call, output,
                   locals, requests>>

\* The get of an extracting invocation resolves.
ExtractResumes(i) ==
    /\ NoneRuns
    /\ pc[i] = "await"
    /\ events[i].ok
    /\ call[i].tool = "extract_issue_context_data"
    /\ response' = [response EXCEPT ![i] = Extracted(call[i], events[i].value)]
    /\ pc' = [pc EXCEPT ![i] = "done"]
    /\ UNCHANGED <<events, extract_fields, result, formatType, view, call, output,
                   locals, requests>>

\* The first run is over: the same requests arrive again, now together.
InvokeAgain ==
    /\ Alone
    /\ \A i \in Invocations : pc[i] = "done"
    /\ result' = response
    /\ pc' = [i \in Invocations |-> "call"]
    /\ response' = [i \in Invocations |-> Unused]
    /\ requests' = <<>>
    /\ UNCHANGED <<events, extract_fields, formatType, view, call, output, locals>>

NextConcurrent ==
    \/ \E i \in Invocations : Invoke(i)
    \/ \E i \in Invocations : FetchRejects(i)
    \/ \E i \in Invocations : ConstructFormatter(i)
    \/ \E i \in Invocations : RenderReturns(i)
    \/ \E i \in Invocations : ExtractResumes(i)
    \/ InvokeAgain

SpecConcurrent == InitConcurrent /\ [][NextConcurrent]_vars

\* C21: an invocation that runs interleaved with others at its await returns
\* the response it returns when it runs alone on the same fetched data.
C21_InterleavingIsInvisible ==
    ~Alone =>
        \A i \in Invocations : pc[i] = "done" => response[i] = result[i]

\* Invocation 1 was invoked while invocation 2 was waiting for its fetch, and
\* has rendered and returned while invocation 2 still waits; the two have
\* formatters of different formats.
C21_Witness ==
    /\ ~Alone
    /\ requests = <<[by |-> 2, endpoint |-> EndpointOf(call[2])],
                    [by |-> 1, endpoint |-> EndpointOf(call[1])]>>
    /\ pc[1] = "done"
    /\ pc[2] = "await"
    /\ call[1].tool = "list_projects"
    /\ call[2].tool = "list_issue_events"
    /\ call[1].format # call[2].format
    /\ "isError" \notin DOMAIN response[1]
    /\ response[1] = result[1]

-----------------------------------------------------------------------------
(* The claims about the requests of the tool handlers.                     *)

\* C22: a get sends one request, and never one that was sent before; when
\* the request fails the handler returns the error and sends nothing more.
C22_NoRetry ==
    [][/\ Len(requests') <= Len(requests) + 1
       /\ \A n \in 1..Len(requests) :
              requests' # requests => requests'[Len(requests')] # requests[n]
       /\ (pc = "await" /\ "error" \in DOMAIN locals')
          => (requests' = requests /\ pc' = "done" /\ response'.isError)]_vars

\* The second get of get_sentry_event has failed with what the upstream
\* answered, and the handler has returned with the two requests it had sent.
C22_Witness ==
    /\ Done("get_sentry_event")
    /\ Failed
    /\ locals.error \in UpstreamErrors
    /\ Len(requests) = 2
    /\ requests[1] # requests[2]
    /\ response.isError

-----------------------------------------------------------------------------
(* More claims about the extraction.                                       *)

\* The events in another order of arrival: the event at position p[n] comes n-th.
Rearranged(evs, p) == [n \in 1..Len(evs) |-> evs[p[n]]]

\* C23: the extraction run again on the same events and fields gives the
\* same result, and run on the events in any other order of arrival it gives
\* the same unique_values.
C23_OrderOfArrival ==
    pc = "return" =>
        /\ ExtractResult(events, extract_fields) = result
        /\ \A p \in Permutations(1..Len(events)) :
               Rearranged(events, p) # events =>
                   ExtractResult(Rearranged(events, p), extract_fields).unique_values
                       = result.unique_values

\* Two events were extracted whose values of roomId arrived in descending
\* order of their strings.
C23_Witness ==
    /\ pc = "return"
    /\ Len(events) = 2
    /\ "roomId" \in DOMAIN result.unique_values
    /\ Len(result.unique_values["roomId"]) = 2
    /\ Len(result.extracted_data) = 2
    /\ ToStr(Get(result.extracted_data[1], "roomId")) = result.unique_values["roomId"][2]
    /\ ToStr(Get(result.extracted_data[2], "roomId")) = result.unique_values["roomId"][1]

-----------------------------------------------------------------------------
(* The claims about what the core leaves of its inputs.                    *)

\* C24: no renderer and no extraction changes what it is given: the call
\* holds the same event, with its maps, its frames in their order and their
\* vars, after formatSingleEvent as before, and the events are the same after
\* the extraction as before.
C24_InputsKept ==
    [][call' = call /\ events' = events /\ extract_fields' = extract_fields]_vars

\* formatSingleEvent has returned for an event of two frames with different
\* vars and a context map, from which it took the Additional Data.
C24_Witness ==
    /\ Returned("formatSingleEvent")
    /\ HasFrames(call.event)
    /\ Len(FramesOf(call.event)) = 2
    /\ Get(FramesOf(call.event)[1], "vars") # Get(FramesOf(call.event)[2], "vars")
    /\ Truthy(Get(FramesOf(call.event)[2], "vars"))
    /\ Truthy(Get(call.event, "context"))
    /\ DOMAIN ShownData # {}

-----------------------------------------------------------------------------
(* More claims about formatSingleEvent.                                    *)

\* The trailing notes of the Stack Trace section.
IsNote(chunk) == chunk.prim = "note"
Notes == SelectSeq(output, IsNote)

\* C25: the Stack Trace section ends with the note "Showing N most relevant
\* frames (T total)" exactly when fewer frames are shown than the trace has;
\* N is then the number of frames shown and T the number of frames.
C25_TrailingNote ==
    (Returned("formatSingleEvent") /\ HasFrames(call.event)) =>
        /\ Len(Notes) = (IF Len(ShownFrames) < Len(FramesOf(call.event)) THEN 1 ELSE 0)
        /\ \A k \in 1..Len(Notes) :
               Flatten(Notes[k].text)
                   = "*Showing " \o ToString(Len(ShownFrames))
                     \o " most relevant frames ("
                     \o ToString(Len(FramesOf(call.event))) \o " total)*\n\n"

\* The positions of the frames that have a non-empty vars map.
VarsPositions ==
    LET frames == FramesOf(call.event)
    IN {i \in 1..Len(frames) :
           Truthy(Get(frames[i], "vars")) /\ Keys(Get(frames[i], "vars")) # {}}

\* The keys and values of a map, none when it is absent.
MapOf(v) == IF Truthy(v) /\ v.t = "obj" THEN v.m ELSE <<>>

\* What the vars of one frame give to the Additional Data: context, then
\* record.context, then record.extra.
FromVars(fvars) ==
    Assign(Assign(MapOf(Get(fvars, "context")),
                  MapOf(Get(Get(fvars, "record"), "context"))),
           MapOf(Get(Get(fvars, "record"), "extra")))

\* C26: the Additional Data are the maps of the event with, over them, what
\* the vars of the last frame with a non-empty vars map give, and nothing of
\* any frame before it, whatever the vars of that last frame hold.
C26_LastFrameWithVars ==
    (Returned("formatSingleEvent") /\ HasFrames(call.event)) =>
        LET frames == FramesOf(call.event)
            last == CHOOSE i \in VarsPositions : \A j \in VarsPositions : j <= i
        IN ShownData
               = IF VarsPositions = {} THEN AssignEventMaps(call.event)
                 ELSE Assign(AssignEventMaps(call.event),
                             FromVars(Get(frames[last], "vars")))

\* The last frame with vars holds none of context and record, the frame
\* before it holds a context, and the event has maps of its own to show.
C26_Witness ==
    /\ Returned("formatSingleEvent")
    /\ HasFrames(call.event)
    /\ VarsPositions = {1, 2}
    /\ FromVars(Get(FramesOf(call.event)[2], "vars")) = <<>>
    /\ FromVars(Get(FramesOf(call.event)[1], "vars")) # <<>>
    /\ ShownData # <<>>
    /\ ShownData = AssignEventMaps(call.event)

-----------------------------------------------------------------------------
(* The claim about the records and the unique values of the extraction.    *)

\* The strings of unique_values[f].
UniqueStrings(f) ==
    {result.unique_values[f][n] : n \in 1..Len(result.unique_values[f])}

\* C27: whatever value a record of extracted_data holds for a requested
\* field, event_id included, its string is in unique_values of that field.
C27_RecordedValuesAreUnique ==
    pc = "return" =>
        \A i \in 1..Len(result.extracted_data) : \A k \in 1..Len(extract_fields) :
            Get(result.extracted_data[i], extract_fields[k]) # Undefined
            => ToStr(Get(result.extracted_data[i], extract_fields[k]))
                   \in UniqueStrings(extract_fields[k])

\* The characters of "/projects/<organization>/<project>/events/<event>/".
EventOfProject(organization, project, event) ==
    <<"/", "p", "r", "o", "j", "e", "c", "t", "s", "/">> \o organization
    \o <<"/">> \o project \o <<"/", "e", "v", "e", "n", "t", "s", "/">> \o event
    \o <<"/">>

\* C28: get_sentry_event asks for the issue first; it asks for the event
\* only once it holds the fetched issue, and then of the project whose slug
\* the issue carries; when it did not get the issue it has sent the one
\* request and its response is the failure.
C28_TwoStepFetch ==
    (call.tool = "get_sentry_event" /\ pc # "call") =>
        /\ Len(requests) \in {1, 2}
        /\ requests[1] = getIssue_Endpoint(locals.organizationSlug, locals.issueId)
        /\ Len(requests) = 2 <=> "issue" \in DOMAIN locals
        /\ Len(requests) = 2 =>
               /\ Truthy(Get(locals.issue, "project"))
               /\ requests[2]
                      = EventOfProject(locals.organizationSlug,
                                       Get(Get(locals.issue, "project"), "slug").c,
                                       locals.extractedEventId)
        /\ (pc = "done" /\ Len(requests) = 1) =>
               /\ Failed
               /\ response = handleApiError(locals.error, "get_sentry_event")

\* The event has been asked of the project api of the fetched issue, and
\* rendered.
C28_Witness ==
    /\ Done("get_sentry_event")
    /\ ~Failed
    /\ Len(requests) = 2
    /\ Get(Get(locals.issue, "project"), "slug") = Chars(<<"a", "p", "i">>)
    /\ requests[2] = EventOfProject(locals.organizationSlug, <<"a", "p", "i">>,
                                    locals.extractedEventId)

\* The pieces of markdown markup the renderer writes: the emphasis marks,
\* the mark of a code span and the fence of a code block.
Markup == {"**", Backtick, Fence}

\* C29: in plain mode the text of formatSingleEvent has no emphasis marks,
\* no code spans and no code fences of the renderer's own, whatever the
\* event holds.
C29_PlainHasNoMarkup ==
    (Returned("formatSingleEvent") /\ formatType = "plain") =>
        \A i \in 1..Len(output) : \A n \in 1..Len(output[i].text) :
            output[i].text[n] \notin Markup

====
